---------------------------- MODULE Spec2Model ----------------------------
(***************************************************************************)
(* Model of the Confluence decision-log synchroniser                       *)
(* (src/confluence_decision_logger.py, and the older variant               *)
(* src/confluence_decision_sync_enhanced.py it was renamed from).          *)
(*                                                                         *)
(* Text is modelled character by character: a text is a sequence of        *)
(* one-character strings, and every regular expression of the source is    *)
(* modelled by an operator that matches as Python's `re` matches it.       *)
(* None is modelled by the empty text <<>> for the two optional date       *)
(* fields (the code only ever tests them for truthiness).                  *)
(***************************************************************************)
EXTENDS Integers, Sequences, FiniteSets, TLC

(***************************************************************************)
(* Python str / re primitives                                              *)
(***************************************************************************)
Min(S) == CHOOSE x \in S : \A y \in S : x <= y
Max(S) == CHOOSE x \in S : \A y \in S : x >= y

\* s[i:] starts with the literal p (indices are 1-based)
MatchAt(s, i, p) ==
    /\ i >= 1
    /\ i + Len(p) - 1 <= Len(s)
    /\ \A k \in 1..Len(p) : s[i + k - 1] = p[k]

\* str.find: the first index >= from where the literal p occurs, 0 when none
Find(s, p, from) ==
    LET O == {i \in from..(Len(s) - Len(p) + 1) : MatchAt(s, i, p)}
    IN  IF O = {} THEN 0 ELSE Min(O)

startswith(s, p) == MatchAt(s, 1, p)

\* s[i:] (1-based, inclusive)
From(s, i) == SubSeq(s, i, Len(s))

\* \s of Python's re, over the characters of the model
IsSpace(c) == c \in {" ", "\n", "\t", "\r"}

\* str.strip()
strip(s) ==
    LET NS == {i \in 1..Len(s) : ~IsSpace(s[i])}
    IN  IF NS = {} THEN <<>> ELSE SubSeq(s, Min(NS), Max(NS))

\* str.split(sep) and re.split of a literal pattern
RECURSIVE split(_, _)
split(s, sep) ==
    LET i == Find(s, sep, 1)
    IN  IF i = 0 THEN <<s>>
        ELSE <<SubSeq(s, 1, i - 1)>> \o split(From(s, i + Len(sep)), sep)

\* sep.join(parts)
RECURSIVE join(_, _)
join(sep, parts) ==
    IF parts = <<>> THEN <<>>
    ELSE IF Len(parts) = 1 THEN parts[1]
    ELSE parts[1] \o sep \o join(sep, Tail(parts))

\* str.replace(old, new) for a one-character old
RECURSIVE replace(_, _, _)
replace(s, old, new) ==
    IF s = <<>> THEN <<>>
    ELSE (IF Head(s) = old THEN new ELSE <<Head(s)>>) \o replace(Tail(s), old, new)

\* the first index >= i whose character is in the set stop, Len(s)+1 when none
RunEnd(s, i, stop) ==
    LET E == {j \in i..Len(s) : s[j] \in stop}
    IN  IF E = {} THEN Len(s) + 1 ELSE Min(E)

\* the first index >= i whose character is not whitespace, Len(s)+1 when none
SkipSpace(s, i) ==
    LET E == {j \in i..Len(s) : ~IsSpace(s[j])}
    IN  IF E = {} THEN Len(s) + 1 ELSE Min(E)

\* str.lower() of one character
LowerOf ==
    ("A" :> "a") @@ ("B" :> "b") @@ ("C" :> "c") @@ ("D" :> "d") @@ ("E" :> "e") @@
    ("F" :> "f") @@ ("G" :> "g") @@ ("H" :> "h") @@ ("I" :> "i") @@ ("J" :> "j") @@
    ("K" :> "k") @@ ("L" :> "l") @@ ("M" :> "m") @@ ("N" :> "n") @@ ("O" :> "o") @@
    ("P" :> "p") @@ ("Q" :> "q") @@ ("R" :> "r") @@ ("S" :> "s") @@ ("T" :> "t") @@
    ("U" :> "u") @@ ("V" :> "v") @@ ("W" :> "w") @@ ("X" :> "x") @@ ("Y" :> "y") @@
    ("Z" :> "z")
lower(c) == IF c \in DOMAIN LowerOf THEN LowerOf[c] ELSE c
UpperOf ==
    ("a" :> "A") @@ ("b" :> "B") @@ ("c" :> "C") @@ ("d" :> "D") @@ ("e" :> "E") @@
    ("f" :> "F") @@ ("g" :> "G") @@ ("h" :> "H") @@ ("i" :> "I") @@ ("j" :> "J") @@
    ("k" :> "K") @@ ("l" :> "L") @@ ("m" :> "M") @@ ("n" :> "N") @@ ("o" :> "O") @@
    ("p" :> "P") @@ ("q" :> "Q") @@ ("r" :> "R") @@ ("s" :> "S") @@ ("t" :> "T") @@
    ("u" :> "U") @@ ("v" :> "V") @@ ("w" :> "W") @@ ("x" :> "X") @@ ("y" :> "Y") @@
    ("z" :> "Z")
\* str.upper()
upper(s) == [i \in 1..Len(s) |-> IF s[i] \in DOMAIN UpperOf THEN UpperOf[s[i]] ELSE s[i]]

\* \w of Python's re
IsWord(c) ==
    \/ lower(c) \in DOMAIN UpperOf
    \/ c \in {"0", "1", "2", "3", "4", "5", "6", "7", "8", "9", "_"}

\* re.search(r'\b(w)\b', s, re.IGNORECASE) for a lower-case literal w that
\* starts and ends with a word character
HasWord(s, w) ==
    \E i \in 1..(Len(s) - Len(w) + 1) :
        /\ \A k \in 1..Len(w) : lower(s[i + k - 1]) = w[k]
        /\ i = 1 \/ ~IsWord(s[i - 1])
        /\ i + Len(w) > Len(s) \/ ~IsWord(s[i + Len(w)])

\* "literal in s"
Contains(s, p) == Find(s, p, 1) # 0


(***************************************************************************)
(* Literals of the two scripts                                             *)
(***************************************************************************)
NL == <<"\n">>
H2 == <<"#", "#", " ">>
NLH2 == <<"\n", "#", "#", " ">>
LBR == <<"[", "[">>
RBR == <<"]", "]">>
STATUS_KEY == <<"*", "*", "S", "t", "a", "t", "u", "s", "*", "*", ":">>
DATE_KEY == <<"*", "*", "D", "a", "t", "e", "*", "*", ":">>
Unassigned == <<"U", "n", "a", "s", "s", "i", "g", "n", "e", "d">>
COMMA_SP == <<",", " ">>
BAR == <<"|">>
OPEN == <<"O", "P", "E", "N">>
DECIDED == <<"D", "E", "C", "I", "D", "E", "D">>
DEFERRED == <<"D", "E", "F", "E", "R", "R", "E", "D">>
\* (Approved|Accepted|Decided), lower-cased for the IGNORECASE match
DecidedWords ==
    { <<"a", "p", "p", "r", "o", "v", "e", "d">>,
      <<"a", "c", "c", "e", "p", "t", "e", "d">>,
      <<"d", "e", "c", "i", "d", "e", "d">> }
\* (In Progress|Ongoing)
OpenWords ==
    { <<"i", "n", " ", "p", "r", "o", "g", "r", "e", "s", "s">>,
      <<"o", "n", "g", "o", "i", "n", "g">> }
\* (Deferred|Postponed|Planning)
DeferredWords ==
    { <<"d", "e", "f", "e", "r", "r", "e", "d">>,
      <<"p", "o", "s", "t", "p", "o", "n", "e", "d">>,
      <<"p", "l", "a", "n", "n", "i", "n", "g">> }

(***************************************************************************)
(* Decision                                                                *)
(***************************************************************************)
\* the characters of a text as one TLA+ string
RECURSIVE str_of(_)
str_of(s) == IF s = <<>> THEN "" ELSE Head(s) \o str_of(Tail(s))

\* hashlib.md5(text.encode()).hexdigest()[:8]: the digest is taken as ideal
\* (two texts have the same digest only when they are the same text), and its
\* eight hex digits are written as one opaque character
md5_8(text) == <<"md5:" \o str_of(text)>>

\* f"{title}|{owner}|{description}"
content_for_hash(title, owner, description) ==
    title \o BAR \o owner \o BAR \o description

\* the dataclass with its __post_init__: a falsy date_created becomes today
Decision(title, owner, description, original_text, hash_id, status, date_created, source, today) ==
    [ title |-> title,
      owner |-> owner,
      description |-> description,
      original_text |-> original_text,
      hash_id |-> hash_id,
      status |-> status,
      date_created |-> IF date_created = <<>> THEN today ELSE date_created,
      date_updated |-> <<>>,
      source |-> source ]

(***************************************************************************)
(* parse_markdown_decisions                                                *)
(***************************************************************************)
\* the index after the match of r'\[\[([^\]]+)\]\]' that starts at i, 0 when
\* there is no match at i
OwnerEnd(s, i) ==
    IF ~MatchAt(s, i, LBR) THEN 0
    ELSE LET e == RunEnd(s, i + 2, {"]"})
         IN  IF e > i + 2 /\ MatchAt(s, e, RBR) THEN e + 2 ELSE 0

\* the first owner alone, as re.search would give it
findall_owner_first(s, i) ==
    LET O == {j \in i..Len(s) : OwnerEnd(s, j) # 0}
    IN  IF O = {} THEN <<>> ELSE <<SubSeq(s, Min(O) + 2, OwnerEnd(s, Min(O)) - 3)>>

\* re.findall(r'\[\[([^\]]+)\]\]', s[i:])
RECURSIVE findall_owner(_, _)
findall_owner(s, i) ==
    LET O == {j \in i..Len(s) : OwnerEnd(s, j) # 0}
    IN  IF O = {} THEN <<>>
        ELSE LET j == Min(O)
                 e == OwnerEnd(s, j)
             IN  <<SubSeq(s, j + 2, e - 3)>> \o findall_owner(s, e)

\* re.sub(r'\[\[[^\]]+\]\]', '', s[i:])
RECURSIVE sub_owner(_, _)
sub_owner(s, i) ==
    LET O == {j \in i..Len(s) : OwnerEnd(s, j) # 0}
    IN  IF O = {} THEN From(s, i)
        ELSE LET j == Min(O)
             IN  SubSeq(s, i, j - 1) \o sub_owner(s, OwnerEnd(s, j))

\* re.search(key + r'\s*([^\n]+)', s): <<>> when nothing matches, else
\* <<group(1)>>. \s* is greedy and gives characters back until a character
\* other than a newline follows.
search_field(s, key) ==
    LET Starts(i) == {q \in (i + Len(key))..SkipSpace(s, i + Len(key)) :
                         q <= Len(s) /\ s[q] # "\n"}
        O == {i \in 1..Len(s) : MatchAt(s, i, key) /\ Starts(i) # {}}
    IN  IF O = {} THEN <<>>
        ELSE LET q == Max(Starts(Min(O)))
             IN  <<SubSeq(s, q, RunEnd(s, q, {"\n"}) - 1)>>

\* the keyword scan of the logger, in its fixed order
infer_status(section) ==
    IF \E w \in DecidedWords : HasWord(section, w) THEN DECIDED
    ELSE IF \E w \in OpenWords : HasWord(section, w) THEN OPEN
    ELSE IF \E w \in DeferredWords : HasWord(section, w) THEN DEFERRED
    ELSE OPEN

\* re.sub(r'^##\s*', '', title_line).strip()
title_of(title_line) ==
    strip(IF MatchAt(title_line, 1, <<"#", "#">>)
          THEN From(title_line, SkipSpace(title_line, 3))
          ELSE title_line)

\* '\n'.join(lines[1:]).strip(), then the owner markup removed and stripped again
description_of(section) ==
    LET lines == split(section, NL)
    IN  strip(sub_owner(strip(join(NL, Tail(lines))), 1))

\* the body of the loop of the logger's parse_markdown_decisions for one
\* section that starts with '## ': <<>> when the title is empty, else the
\* one Decision
parse_section(section, today) ==
    LET lines == split(section, NL)
        title == title_of(lines[1])
        owner_matches == findall_owner(section, 1)
        owner == join(COMMA_SP, IF owner_matches = <<>> THEN <<Unassigned>> ELSE owner_matches)
        status_match == search_field(section, STATUS_KEY)
        status == IF status_match # <<>> THEN strip(status_match[1]) ELSE infer_status(section)
        date_match == search_field(section, DATE_KEY)
        date_created == IF date_match # <<>> THEN strip(date_match[1]) ELSE <<>>
        description == description_of(section)
    IN  IF title = <<>> THEN <<>>
        ELSE << Decision(title, owner, description, section,
                         md5_8(content_for_hash(title, owner, description)),
                         status, date_created, "markdown", today) >>

\* the same loop body in the older script: the first owner only, and no
\* keyword scan
parse_section_enhanced(section, today) ==
    LET lines == split(section, NL)
        title == title_of(lines[1])
        owner_matches == findall_owner(section, 1)
        owner == IF owner_matches = <<>> THEN Unassigned ELSE owner_matches[1]
        status_match == search_field(section, STATUS_KEY)
        status == IF status_match # <<>> THEN strip(status_match[1]) ELSE OPEN
        date_match == search_field(section, DATE_KEY)
        date_created == IF date_match # <<>> THEN strip(date_match[1]) ELSE <<>>
        description == description_of(section)
    IN  IF title = <<>> THEN <<>>
        ELSE << Decision(title, owner, description, section,
                         md5_8(content_for_hash(title, owner, description)),
                         status, date_created, "markdown", today) >>

\* sections[i..] of re.split(r'\n## ', markdown_content), each parsed: the
\* first is skipped unless it starts with '## ', and '## ' is put back in
\* front of the others
RECURSIVE parse_sections(_, _, _, _)
parse_sections(sections, i, today, variant) ==
    IF i > Len(sections) THEN <<>>
    ELSE LET section == IF startswith(sections[i], H2) THEN sections[i] ELSE H2 \o sections[i]
             here == IF i = 1 /\ ~startswith(sections[1], H2) THEN <<>>
                     ELSE IF variant = "logger" THEN parse_section(section, today)
                     ELSE parse_section_enhanced(section, today)
         IN  here \o parse_sections(sections, i + 1, today, variant)

parse_markdown_decisions(markdown_content, today, variant) ==
    parse_sections(split(markdown_content, NLH2), 1, today, variant)


(***************************************************************************)
(* Literals of the storage markup                                          *)
(***************************************************************************)
\* the literals of decision_pattern
MACRO_OPEN ==
    <<"<", "a", "c", ":", "s", "t", "r", "u", "c", "t", "u", "r", "e", "d", "-", "m", "a", "c",
    "r", "o", " ", "a", "c", ":", "n", "a", "m", "e", "=", "\"", "d", "e", "c", "i", "s", "i",
    "o", "n", "\"">>
MACRO_ID ==
    <<"a", "c", ":", "m", "a", "c", "r", "o", "-", "i", "d", "=", "\"">>
MACRO_CLOSE ==
    <<"<", "/", "a", "c", ":", "s", "t", "r", "u", "c", "t", "u", "r", "e", "d", "-", "m", "a",
    "c", "r", "o", ">">>
\* the literals of the parameter and body patterns
PARAM_TITLE ==
    <<"<", "a", "c", ":", "p", "a", "r", "a", "m", "e", "t", "e", "r", " ", "a", "c", ":", "n",
    "a", "m", "e", "=", "\"", "t", "i", "t", "l", "e", "\"", ">">>
PARAM_OWNER ==
    <<"<", "a", "c", ":", "p", "a", "r", "a", "m", "e", "t", "e", "r", " ", "a", "c", ":", "n",
    "a", "m", "e", "=", "\"", "o", "w", "n", "e", "r", "\"", ">">>
PARAM_CLOSE ==
    <<"<", "/", "a", "c", ":", "p", "a", "r", "a", "m", "e", "t", "e", "r", ">">>
RTB_OPEN ==
    <<"<", "a", "c", ":", "r", "i", "c", "h", "-", "t", "e", "x", "t", "-", "b", "o", "d", "y",
    ">">>
RTB_CLOSE ==
    <<"<", "/", "a", "c", ":", "r", "i", "c", "h", "-", "t", "e", "x", "t", "-", "b", "o", "d",
    "y", ">">>
P_OPEN ==
    <<"<", "p", ">">>
P_CLOSE ==
    <<"<", "/", "p", ">">>
\* f"Decision {macro_id}"
DecisionSp ==
    <<"D", "e", "c", "i", "s", "i", "o", "n", " ">>
BR ==
    <<"<", "b", "r", "/", ">">>
BR_PLAIN ==
    <<"<", "b", "r", ">">>
STRONG_OPEN ==
    <<"<", "s", "t", "r", "o", "n", "g", ">">>
STRONG_CLOSE ==
    <<"<", "/", "s", "t", "r", "o", "n", "g", ">">>
EM_OPEN ==
    <<"<", "e", "m", ">">>
EM_CLOSE ==
    <<"<", "/", "e", "m", ">">>
CODE_OPEN ==
    <<"<", "c", "o", "d", "e", ">">>
CODE_CLOSE ==
    <<"<", "/", "c", "o", "d", "e", ">">>
\* the five entities of escape_html
AMP ==
    <<"&", "a", "m", "p", ";">>
LT ==
    <<"&", "l", "t", ";">>
GT ==
    <<"&", "g", "t", ";">>
QUOT ==
    <<"&", "q", "u", "o", "t", ";">>
APOS ==
    <<"&", "#", "x", "2", "7", ";">>
\* the metadata lines appended to a rendered description
STATUS_META ==
    <<"<", "b", "r", "/", ">", "<", "b", "r", "/", ">", "<", "s", "t", "r", "o", "n", "g", ">",
    "S", "t", "a", "t", "u", "s", ":", "<", "/", "s", "t", "r", "o", "n", "g", ">", " ">>
CREATED_META ==
    <<"<", "b", "r", "/", ">", "<", "s", "t", "r", "o", "n", "g", ">", "C", "r", "e", "a", "t",
    "e", "d", ":", "<", "/", "s", "t", "r", "o", "n", "g", ">", " ">>
UPDATED_META ==
    <<"<", "b", "r", "/", ">", "<", "s", "t", "r", "o", "n", "g", ">", "U", "p", "d", "a", "t",
    "e", "d", ":", "<", "/", "s", "t", "r", "o", "n", "g", ">", " ">>
\* the pieces of decision_xml in the older script
XML_1 ==
    <<"<", "a", "c", ":", "s", "t", "r", "u", "c", "t", "u", "r", "e", "d", "-", "m", "a", "c",
    "r", "o", " ", "a", "c", ":", "n", "a", "m", "e", "=", "\"", "d", "e", "c", "i", "s", "i",
    "o", "n", "\"", " ", "a", "c", ":", "s", "c", "h", "e", "m", "a", "-", "v", "e", "r", "s",
    "i", "o", "n", "=", "\"", "1", "\"", " ", "a", "c", ":", "m", "a", "c", "r", "o", "-", "i",
    "d", "=", "\"">>
XML_2 ==
    <<"\"", ">", "\n", " ", " ", " ", " ", "<", "a", "c", ":", "p", "a", "r", "a", "m", "e",
    "t", "e", "r", " ", "a", "c", ":", "n", "a", "m", "e", "=", "\"", "t", "i", "t", "l", "e",
    "\"", ">">>
XML_3 ==
    <<"<", "/", "a", "c", ":", "p", "a", "r", "a", "m", "e", "t", "e", "r", ">", "\n", " ",
    " ", " ", " ", "<", "a", "c", ":", "p", "a", "r", "a", "m", "e", "t", "e", "r", " ", "a",
    "c", ":", "n", "a", "m", "e", "=", "\"", "o", "w", "n", "e", "r", "\"", ">">>
XML_4 ==
    <<"<", "/", "a", "c", ":", "p", "a", "r", "a", "m", "e", "t", "e", "r", ">", "\n", " ",
    " ", " ", " ", "<", "a", "c", ":", "r", "i", "c", "h", "-", "t", "e", "x", "t", "-", "b",
    "o", "d", "y", ">", "\n", " ", " ", " ", " ", " ", " ", " ", " ", "<", "p", ">">>
XML_5 ==
    <<"<", "/", "p", ">", "\n", " ", " ", " ", " ", "<", "/", "a", "c", ":", "r", "i", "c",
    "h", "-", "t", "e", "x", "t", "-", "b", "o", "d", "y", ">", "\n", "<", "/", "a", "c", ":",
    "s", "t", "r", "u", "c", "t", "u", "r", "e", "d", "-", "m", "a", "c", "r", "o", ">">>
\* the pieces of decision_xml in the logger
H2_OPEN ==
    <<"<", "h", "2", ">">>
H2_CLOSE ==
    <<"<", "/", "h", "2", ">", "\n", "<", "p", ">", "<", "s", "t", "r", "o", "n", "g", ">",
    "P", "a", "r", "t", "i", "c", "i", "p", "a", "n", "t", "s", ":", "<", "/", "s", "t", "r",
    "o", "n", "g", ">", " ">>
PART_CLOSE ==
    <<"<", "/", "p", ">", "\n", "<", "p", ">">>
BLOCK_CLOSE ==
    <<"<", "/", "p", ">", "\n", "<", "h", "r", "/", ">">>
\* the pieces of the page header
HEADER_1 ==
    <<"<", "h", "1", ">">>
HEADER_2 ==
    <<"<", "/", "h", "1", ">", "\n", "<", "p", ">", "T", "h", "i", "s", " ", "p", "a", "g",
    "e", " ", "c", "o", "n", "t", "a", "i", "n", "s", " ", "a", "l", "l", " ", "p", "r", "o",
    "j", "e", "c", "t", " ", "d", "e", "c", "i", "s", "i", "o", "n", "s", ".", " ", "I", "t",
    " ", "i", "s", " ", "a", "u", "t", "o", "m", "a", "t", "i", "c", "a", "l", "l", "y", " ",
    "s", "y", "n", "c", "h", "r", "o", "n", "i", "z", "e", "d", " ", "w", "i", "t", "h", " ",
    "m", "a", "r", "k", "d", "o", "w", "n", " ", "d", "o", "c", "u", "m", "e", "n", "t", "s",
    ".", "<", "/", "p", ">", "\n", "<", "p", ">", "<", "e", "m", ">", "L", "a", "s", "t", " ",
    "s", "y", "n", "c", "h", "r", "o", "n", "i", "z", "e", "d", ":", " ">>
HEADER_3 ==
    <<"<", "/", "e", "m", ">", "<", "/", "p", ">">>
SUMMARY_1 ==
    <<"<", "p", ">", "<", "s", "t", "r", "o", "n", "g", ">", "S", "y", "n", "c", " ", "S", "u",
    "m", "m", "a", "r", "y", ":", "<", "/", "s", "t", "r", "o", "n", "g", ">", " ">>
ADDED_SP ==
    <<" ", "a", "d", "d", "e", "d", ",", " ">>
UPDATED_SP ==
    <<" ", "u", "p", "d", "a", "t", "e", "d", ",", " ">>
UNCHANGED_P ==
    <<" ", "u", "n", "c", "h", "a", "n", "g", "e", "d", "<", "/", "p", ">">>
HR ==
    <<"<", "h", "r", "/", ">">>
\* the separator between macros in the older script
MACRO_SEP ==
    <<"\n", "<", "b", "r", "/", ">", "\n">>
DecisionLog ==
    <<"D", "e", "c", "i", "s", "i", "o", "n", " ", "L", "o", "g">>
APPROVE ==
    <<"A", "P", "P", "R", "O", "V", "E">>
ACCEPTED ==
    <<"A", "C", "C", "E", "P", "T", "E", "D">>
DEFER ==
    <<"D", "E", "F", "E", "R">>
POSTPONE ==
    <<"P", "O", "S", "T", "P", "O", "N", "E">>
IN_PROGRESS ==
    <<"I", "N", " ", "P", "R", "O", "G", "R", "E", "S", "S">>
Green ==
    <<"G", "r", "e", "e", "n">>
Yellow ==
    <<"Y", "e", "l", "l", "o", "w">>
Blue ==
    <<"B", "l", "u", "e">>
Grey ==
    <<"G", "r", "e", "y">>
STATUS_XML_1 ==
    <<"<", "a", "c", ":", "s", "t", "r", "u", "c", "t", "u", "r", "e", "d", "-", "m", "a", "c",
    "r", "o", " ", "a", "c", ":", "n", "a", "m", "e", "=", "\"", "s", "t", "a", "t", "u", "s",
    "\"", " ", "a", "c", ":", "s", "c", "h", "e", "m", "a", "-", "v", "e", "r", "s", "i", "o",
    "n", "=", "\"", "1", "\"", ">", "\n", " ", " ", " ", " ", "<", "a", "c", ":", "p", "a",
    "r", "a", "m", "e", "t", "e", "r", " ", "a", "c", ":", "n", "a", "m", "e", "=", "\"", "c",
    "o", "l", "o", "u", "r", "\"", ">">>
STATUS_XML_2 ==
    <<"<", "/", "a", "c", ":", "p", "a", "r", "a", "m", "e", "t", "e", "r", ">", "\n", " ",
    " ", " ", " ", "<", "a", "c", ":", "p", "a", "r", "a", "m", "e", "t", "e", "r", " ", "a",
    "c", ":", "n", "a", "m", "e", "=", "\"", "t", "i", "t", "l", "e", "\"", ">">>
STATUS_XML_3 ==
    <<"<", "/", "a", "c", ":", "p", "a", "r", "a", "m", "e", "t", "e", "r", ">", "\n", "<",
    "/", "a", "c", ":", "s", "t", "r", "u", "c", "t", "u", "r", "e", "d", "-", "m", "a", "c",
    "r", "o", ">">>

(***************************************************************************)
(* extract_existing_decisions                                              *)
(***************************************************************************)
\* One match of decision_pattern (re.DOTALL) starting at i, as
\* [id, body, end] (end: the index after the match), or <<>> when the
\* pattern does not match at i. [^>]*? is lazy: the first 'ac:macro-id="'
\* before any '>' from which the rest of the pattern matches is taken.
macro_at(s, i) ==
    IF ~MatchAt(s, i, MACRO_OPEN) THEN <<>>
    ELSE LET p == i + Len(MACRO_OPEN)
             quote(k) == RunEnd(s, k + Len(MACRO_ID), {"\""})
             gt(k) == RunEnd(s, quote(k) + 1, {">"})
             close(k) == Find(s, MACRO_CLOSE, gt(k) + 1)
             K == {k \in p..RunEnd(s, p, {">"}) :
                      /\ MatchAt(s, k, MACRO_ID)
                      /\ quote(k) <= Len(s)
                      /\ gt(k) <= Len(s)
                      /\ close(k) # 0}
         IN  IF K = {} THEN <<>>
             ELSE LET k == Min(K)
                  IN  << [ id |-> SubSeq(s, k + Len(MACRO_ID), quote(k) - 1),
                           body |-> SubSeq(s, gt(k) + 1, close(k) - 1),
                           end |-> close(k) + Len(MACRO_CLOSE) ] >>

\* re.findall(decision_pattern, s[i:], re.DOTALL)
RECURSIVE findall_macros(_, _)
findall_macros(s, i) ==
    LET O == {j \in i..Len(s) : macro_at(s, j) # <<>>}
    IN  IF O = {} THEN <<>>
        ELSE LET m == macro_at(s, Min(O))[1]
             IN  <<m>> \o findall_macros(s, m.end)

\* re.search(open + r'([^<]*)</ac:parameter>', s): <<>> or <<group(1)>>
search_parameter(s, open) ==
    LET stop(i) == RunEnd(s, i + Len(open), {"<"})
        O == {i \in 1..Len(s) : MatchAt(s, i, open) /\ MatchAt(s, stop(i), PARAM_CLOSE)}
    IN  IF O = {} THEN <<>>
        ELSE <<SubSeq(s, Min(O) + Len(open), stop(Min(O)) - 1)>>

\* re.search(r'<ac:rich-text-body>\s*<p>([^<]*(?:<[^>]*>[^<]*)*)</p>\s*</ac:rich-text-body>', s):
\* <<>> or <<group(1)>>. The group is a run of text and of tags <...>; it is
\* greedy, so it ends at the last '</p>' that is followed by the closing
\* literal and does not lie inside a tag.
search_body(s) ==
    LET start(i) == SkipSpace(s, i + Len(RTB_OPEN)) + Len(P_OPEN)
        outside(g0, e) ==
            LET G == {j \in g0..(e - 1) : s[j] = ">"}
                g == IF G = {} THEN g0 - 1 ELSE Max(G)
            IN  \A j \in (g + 1)..(e - 1) : s[j] # "<"
        Ends(i) == {e \in start(i)..Len(s) :
                       /\ MatchAt(s, e, P_CLOSE)
                       /\ MatchAt(s, SkipSpace(s, e + Len(P_CLOSE)), RTB_CLOSE)
                       /\ outside(start(i), e)}
        O == {i \in 1..Len(s) :
                 /\ MatchAt(s, i, RTB_OPEN)
                 /\ MatchAt(s, SkipSpace(s, i + Len(RTB_OPEN)), P_OPEN)
                 /\ Ends(i) # {}}
    IN  IF O = {} THEN <<>>
        ELSE <<SubSeq(s, start(Min(O)), Max(Ends(Min(O))) - 1)>>

\* re.sub(r'<br/?>', '\n', s)
RECURSIVE sub_br(_)
sub_br(s) ==
    LET O == {i \in 1..Len(s) : MatchAt(s, i, BR) \/ MatchAt(s, i, BR_PLAIN)}
    IN  IF O = {} THEN s
        ELSE LET i == Min(O)
                 n == IF MatchAt(s, i, BR) THEN Len(BR) ELSE Len(BR_PLAIN)
             IN  SubSeq(s, 1, i - 1) \o NL \o sub_br(From(s, i + n))

\* re.sub(r'<[^>]+>', '', s)
RECURSIVE sub_tags(_)
sub_tags(s) ==
    LET tag_end(i) == RunEnd(s, i + 1, {">"})
        O == {i \in 1..Len(s) : s[i] = "<" /\ tag_end(i) <= Len(s) /\ tag_end(i) > i + 1}
    IN  IF O = {} THEN s
        ELSE SubSeq(s, 1, Min(O) - 1) \o sub_tags(From(s, tag_end(Min(O)) + 1))

\* extract_decision with the status taken into the digest
extract_decision_hashes_status(macro_id, macro_content, today) ==
    LET title_match == search_parameter(macro_content, PARAM_TITLE)
        title == IF title_match # <<>> THEN title_match[1] ELSE DecisionSp \o macro_id
        owner_match == search_parameter(macro_content, PARAM_OWNER)
        owner == IF owner_match # <<>> THEN owner_match[1] ELSE Unassigned
        desc_match == search_body(macro_content)
        description == strip(sub_tags(sub_br(IF desc_match # <<>> THEN desc_match[1] ELSE <<>>)))
    IN  Decision(title, owner, description, macro_content,
                 md5_8(content_for_hash(title, owner, description \o BAR \o OPEN)),
                 OPEN, <<>>, "confluence", today)

\* the body of the loop of extract_existing_decisions for one match
extract_decision(macro_id, macro_content, today) ==
    LET title_match == search_parameter(macro_content, PARAM_TITLE)
        title == IF title_match # <<>> THEN title_match[1] ELSE DecisionSp \o macro_id
        owner_match == search_parameter(macro_content, PARAM_OWNER)
        owner == IF owner_match # <<>> THEN owner_match[1] ELSE Unassigned
        desc_match == search_body(macro_content)
        description == strip(sub_tags(sub_br(IF desc_match # <<>> THEN desc_match[1] ELSE <<>>)))
    IN  Decision(title, owner, description, macro_content,
                 md5_8(content_for_hash(title, owner, description)),
                 OPEN, <<>>, "confluence", today)

\* the decisions of a fetched page body; the same code in both scripts
decisions_of_content(content, today) ==
    LET matches == findall_macros(content, 1)
    IN  [i \in 1..Len(matches) |-> extract_decision(matches[i].id, matches[i].body, today)]

\* extract_existing_decisions reading the page although the fetch raised
extract_existing_decisions_despite_failure(fetched, content, today) ==
    decisions_of_content(content, today)

\* extract_existing_decisions: [] when the fetch (or reading the body out of
\* the response) raises
extract_existing_decisions(fetched, content, today) ==
    IF fetched THEN decisions_of_content(content, today) ELSE <<>>


(***************************************************************************)
(* create_decision_macro_xml                                               *)
(***************************************************************************)
\* the grave accent U+0060, which a TLA+ string cannot hold, as one character
Backtick == "backtick"

\* escape_html: the five replacements, '&' first
escape_html(text) ==
    replace(replace(replace(replace(replace(text, "&", AMP), "<", LT), ">", GT), "\"", QUOT),
            "'", APOS)

\* re.sub(d + r'(.*?)' + d, open + r'\1' + close, s) for a literal delimiter
\* d: the lazy group ends at the next delimiter on the same line ('.' does
\* not match a newline)
RECURSIVE sub_paired(_, _, _, _)
sub_paired(s, d, open, close) ==
    LET n == Len(d)
        closer(i) ==
            LET C == {j \in (i + n)..RunEnd(s, i + n, {"\n"}) : MatchAt(s, j, d)}
            IN  IF C = {} THEN 0 ELSE Min(C)
        O == {i \in 1..Len(s) : MatchAt(s, i, d) /\ closer(i) # 0}
    IN  IF O = {} THEN s
        ELSE LET i == Min(O)
                 j == closer(i)
             IN  SubSeq(s, 1, i - 1) \o open \o SubSeq(s, i + n, j - 1) \o close
                     \o sub_paired(From(s, j + n), d, open, close)

\* the description with italic converted before bold
render_description_italic_first(description) ==
    LET escaped == escape_html(description)
        italic == sub_paired(escaped, <<"*">>, EM_OPEN, EM_CLOSE)
        bold == sub_paired(italic, <<"*", "*">>, STRONG_OPEN, STRONG_CLOSE)
        code == sub_paired(bold, <<Backtick>>, CODE_OPEN, CODE_CLOSE)
    IN  replace(code, "\n", BR)

\* the description as both scripts render it, before the metadata lines:
\* escaped, then bold, italic and code converted, then newlines as <br/>
render_description(description) ==
    LET escaped == escape_html(description)
        bold == sub_paired(escaped, <<"*", "*">>, STRONG_OPEN, STRONG_CLOSE)
        italic == sub_paired(bold, <<"*">>, EM_OPEN, EM_CLOSE)
        code == sub_paired(italic, <<Backtick>>, CODE_OPEN, CODE_CLOSE)
    IN  replace(code, "\n", BR)

\* the colour of the status macro of the logger
status_color(status) ==
    LET status_value == strip(upper(status))
    IN  IF status = <<>> THEN Grey
        ELSE IF Contains(status_value, APPROVE) \/ Contains(status_value, DECIDED)
                \/ Contains(status_value, ACCEPTED) THEN Green
        ELSE IF Contains(status_value, DEFER) \/ Contains(status_value, POSTPONE) THEN Yellow
        ELSE IF Contains(status_value, OPEN) \/ Contains(status_value, IN_PROGRESS) THEN Blue
        ELSE Grey

\* the status macro the logger builds (and does not put in decision_xml)
status_macro(decision) ==
    STATUS_XML_1 \o status_color(decision.status) \o STATUS_XML_2 \o decision.status
        \o STATUS_XML_3

\* ", ".join([name.strip() for name in owner.split(",")])
participants_of(owner) ==
    LET names == split(owner, <<",">>)
    IN  join(COMMA_SP, [i \in 1..Len(names) |-> strip(names[i])])

\* create_decision_macro_xml of the logger: a heading block, no macro
create_decision_macro_xml(decision) ==
    LET escaped_title == escape_html(decision.title)
        created == IF decision.date_created # <<>>
                   THEN CREATED_META \o decision.date_created ELSE <<>>
        updated == IF decision.date_updated # <<>>
                   THEN UPDATED_META \o decision.date_updated ELSE <<>>
        escaped_description == render_description(decision.description) \o created \o updated
    IN  H2_OPEN \o escaped_title \o H2_CLOSE \o participants_of(decision.owner) \o PART_CLOSE
            \o escaped_description \o BLOCK_CLOSE

\* create_decision_macro_xml of the older script: a decision macro
create_decision_macro_xml_enhanced(decision) ==
    LET escaped_title == escape_html(decision.title)
        escaped_owner == escape_html(decision.owner)
        status == IF decision.status # OPEN THEN STATUS_META \o decision.status ELSE <<>>
        created == IF decision.date_created # <<>>
                   THEN CREATED_META \o decision.date_created ELSE <<>>
        updated == IF decision.date_updated # <<>>
                   THEN UPDATED_META \o decision.date_updated ELSE <<>>
        escaped_description ==
            render_description(decision.description) \o status \o created \o updated
    IN  XML_1 \o decision.hash_id \o XML_2 \o escaped_title \o XML_3 \o escaped_owner \o XML_4
            \o escaped_description \o XML_5

(***************************************************************************)
(* create_decisions_page_content                                           *)
(***************************************************************************)
DigitChars == <<"0", "1", "2", "3", "4", "5", "6", "7", "8", "9">>
IsDigit(c) == \E k \in 1..Len(DigitChars) : DigitChars[k] = c
DigitVal(c) == (CHOOSE k \in 1..Len(DigitChars) : DigitChars[k] = c) - 1

\* str(n) for n >= 0
RECURSIVE str_int(_)
str_int(n) ==
    IF n < 10 THEN <<DigitChars[n + 1]>>
    ELSE str_int(n \div 10) \o <<DigitChars[(n % 10) + 1]>>

\* int(text) for a text of digits
RECURSIVE int_of(_)
int_of(text) ==
    IF text = <<>> THEN 0
    ELSE 10 * int_of(SubSeq(text, 1, Len(text) - 1)) + DigitVal(text[Len(text)])

DaysInMonth(y, m) ==
    IF m \in {4, 6, 9, 11} THEN 30
    ELSE IF m # 2 THEN 31
    ELSE IF (y % 4 = 0 /\ y % 100 # 0) \/ y % 400 = 0 THEN 29
    ELSE 28

\* the date 1900-01-01 as the sort key year*10000 + month*100 + day
SentinelKey == 19000101

\* _parse_date: datetime.strptime(date_created or "1900-01-01", "%Y-%m-%d"),
\* and 1900-01-01 on ValueError, as the key year*10000 + month*100 + day.
\* %Y is four digits, %m is 1[0-2]|0[1-9]|[1-9], %d is
\* 3[01]|[12]\d|0[1-9]|[1-9]| [1-9], nothing may follow, and the date must
\* exist.
parse_date_key(decision) ==
    LET t == decision.date_created
        dash == Find(t, <<"-">>, 6)
        ytext == SubSeq(t, 1, 4)
        mtext == SubSeq(t, 6, dash - 1)
        dtext == IF Len(t) > dash /\ t[dash + 1] = " " THEN From(t, dash + 2) ELSE From(t, dash + 1)
        digits(x) == \A k \in 1..Len(x) : IsDigit(x[k])
        shaped == /\ Len(t) >= 8
                  /\ digits(ytext)
                  /\ t[5] = "-"
                  /\ dash # 0
                  /\ Len(mtext) \in {1, 2} /\ digits(mtext)
                  /\ Len(dtext) \in {1, 2} /\ digits(dtext)
                  /\ (Len(t) > dash /\ t[dash + 1] = " ") => Len(dtext) = 1
        y == int_of(ytext)
        m == int_of(mtext)
        d == int_of(dtext)
    IN  IF t = <<>> THEN SentinelKey
        ELSE IF shaped /\ y >= 1 /\ m \in 1..12 /\ d >= 1 /\ d <= DaysInMonth(y, m)
        THEN y * 10000 + m * 100 + d
        ELSE SentinelKey

\* sorted(decisions, key=_parse_date, reverse=True): stable, so decisions
\* with equal keys keep their order
RECURSIVE sorted_by_date(_)
sorted_by_date(decisions) ==
    IF decisions = <<>> THEN <<>>
    ELSE LET x == Head(decisions)
             rest == sorted_by_date(Tail(decisions))
             Before == {k \in 1..Len(rest) : parse_date_key(rest[k]) > parse_date_key(x)}
             n == IF Before = {} THEN 0 ELSE Max(Before)
         IN  SubSeq(rest, 1, n) \o <<x>> \o SubSeq(rest, n + 1, Len(rest))

\* the header of both scripts up to the sync summary
page_header(actual_title, now) ==
    HEADER_1 \o actual_title \o HEADER_2 \o now.date \o <<" ">> \o now.time \o HEADER_3

\* create_decisions_page_content of the logger; actual_title is the fetched
\* title, or "Decision Log" when the fetch raised
create_decisions_page_content(decisions, actual_title, sync_result, now) ==
    LET header == page_header(actual_title, now)
                      \o SUMMARY_1 \o str_int(Len(sync_result.added)) \o ADDED_SP
                      \o str_int(Len(sync_result.updated)) \o UPDATED_SP
                      \o str_int(Len(sync_result.unchanged)) \o UNCHANGED_P \o HR
        sorted_decisions == sorted_by_date(decisions)
        decision_sections ==
            [i \in 1..Len(sorted_decisions) |-> create_decision_macro_xml(sorted_decisions[i])]
    IN  header \o join(NL, decision_sections)

\* create_decisions_page_content of the older script: unsorted; actual_title
\* is the fetched title, or the page id it was passed when the fetch raised
create_decisions_page_content_enhanced(decisions, actual_title, sync_result, now) ==
    LET header == page_header(actual_title, now)
                      \o SUMMARY_1 \o NL \o str_int(Len(sync_result.added)) \o ADDED_SP
                      \o str_int(Len(sync_result.updated)) \o UPDATED_SP \o NL
                      \o str_int(Len(sync_result.unchanged)) \o UNCHANGED_P \o HR
        decision_macros ==
            [i \in 1..Len(decisions) |-> create_decision_macro_xml_enhanced(decisions[i])]
    IN  header \o join(MACRO_SEP, decision_macros)


(***************************************************************************)
(* sync_decisions (the same code in both scripts)                          *)
(***************************************************************************)
\* SyncResult()
EmptySyncResult ==
    [added |-> <<>>, updated |-> <<>>, unchanged |-> <<>>, removed |-> <<>>, errors |-> <<>>]

\* "title in {d.title: d for d in decisions}"
has_title(decisions, title) == \E i \in 1..Len(decisions) : decisions[i].title = title

\* {d.title: d for d in decisions}[title]: a later decision overwrites an
\* earlier one with the same title
by_title(decisions, title) ==
    decisions[Max({i \in 1..Len(decisions) : decisions[i].title = title})]

\* sync_markdown_decision with date_updated set on an added decision too
sync_markdown_decision_stamps_added(acc, i, confluence_decisions, today) ==
    LET md_decision == acc.markdown_decisions[i]
        stamped == [md_decision EXCEPT !.date_updated = today]
    IN  IF has_title(confluence_decisions, md_decision.title)
        THEN LET conf_decision == by_title(confluence_decisions, md_decision.title)
             IN  IF md_decision.hash_id # conf_decision.hash_id
                 THEN [ markdown_decisions |-> [acc.markdown_decisions EXCEPT ![i] = stamped],
                        final_decisions |-> Append(acc.final_decisions, stamped),
                        sync_result |-> [acc.sync_result EXCEPT
                                           !.updated = Append(@, md_decision.title)] ]
                 ELSE [ acc EXCEPT
                          !.final_decisions = Append(@, conf_decision),
                          !.sync_result.unchanged = Append(@, md_decision.title) ]
        ELSE [ markdown_decisions |-> [acc.markdown_decisions EXCEPT ![i] = stamped],
               final_decisions |-> Append(acc.final_decisions, stamped),
               sync_result |-> [acc.sync_result EXCEPT
                                  !.added = Append(@, md_decision.title)] ]

\* sync_markdown_decision with the markdown record, not the Confluence one,
\* kept for an unchanged decision
sync_markdown_decision_keeps_markdown(acc, i, confluence_decisions, today) ==
    LET md_decision == acc.markdown_decisions[i]
        stamped == [md_decision EXCEPT !.date_updated = today]
    IN  IF has_title(confluence_decisions, md_decision.title)
        THEN LET conf_decision == by_title(confluence_decisions, md_decision.title)
             IN  IF md_decision.hash_id # conf_decision.hash_id
                 THEN [ markdown_decisions |-> [acc.markdown_decisions EXCEPT ![i] = stamped],
                        final_decisions |-> Append(acc.final_decisions, stamped),
                        sync_result |-> [acc.sync_result EXCEPT
                                           !.updated = Append(@, md_decision.title)] ]
                 ELSE [ acc EXCEPT
                          !.final_decisions = Append(@, md_decision),
                          !.sync_result.unchanged = Append(@, md_decision.title) ]
        ELSE [ acc EXCEPT
                 !.final_decisions = Append(@, md_decision),
                 !.sync_result.added = Append(@, md_decision.title) ]

\* one iteration of the first loop, on markdown_decisions[i]; acc holds
\* final_decisions, sync_result and the markdown decisions (the loop assigns
\* date_updated on the markdown Decision object itself)
sync_markdown_decision(acc, i, confluence_decisions, today) ==
    LET md_decision == acc.markdown_decisions[i]
        stamped == [md_decision EXCEPT !.date_updated = today]
    IN  IF has_title(confluence_decisions, md_decision.title)
        THEN LET conf_decision == by_title(confluence_decisions, md_decision.title)
             IN  IF md_decision.hash_id # conf_decision.hash_id
                 THEN [ markdown_decisions |-> [acc.markdown_decisions EXCEPT ![i] = stamped],
                        final_decisions |-> Append(acc.final_decisions, stamped),
                        sync_result |-> [acc.sync_result EXCEPT
                                           !.updated = Append(@, md_decision.title)] ]
                 ELSE [ acc EXCEPT
                          !.final_decisions = Append(@, conf_decision),
                          !.sync_result.unchanged = Append(@, md_decision.title) ]
        ELSE [ acc EXCEPT
                 !.final_decisions = Append(@, md_decision),
                 !.sync_result.added = Append(@, md_decision.title) ]

\* the first loop from markdown_decisions[i] on
RECURSIVE sync_markdown_loop(_, _, _, _)
sync_markdown_loop(acc, i, confluence_decisions, today) ==
    IF i > Len(acc.markdown_decisions) THEN acc
    ELSE sync_markdown_loop(sync_markdown_decision(acc, i, confluence_decisions, today),
                            i + 1, confluence_decisions, today)

\* confluence_only with the decisions told apart by hash_id, not by title
confluence_only_by_hash(markdown_decisions, confluence_decisions) ==
    SelectSeq(confluence_decisions,
              LAMBDA c : \A i \in 1..Len(markdown_decisions) :
                             markdown_decisions[i].hash_id # c.hash_id)

\* the second loop: the decisions found only in Confluence, in their order
confluence_only(markdown_decisions, confluence_decisions) ==
    SelectSeq(confluence_decisions, LAMBDA c : ~has_title(markdown_decisions, c.title))

\* sync_decisions: final_decisions and sync_result as returned, and
\* markdown_decisions as the call leaves the caller's list
sync_decisions(markdown_decisions, confluence_decisions, today) ==
    LET acc == sync_markdown_loop([ markdown_decisions |-> markdown_decisions,
                                    final_decisions |-> <<>>,
                                    sync_result |-> EmptySyncResult ],
                                  1, confluence_decisions, today)
    IN  [ acc EXCEPT !.final_decisions =
                         @ \o confluence_only(markdown_decisions, confluence_decisions) ]


(***************************************************************************)
(* Inputs of the runs                                                      *)
(***************************************************************************)
\* the page id given to the run
PAGE_ID ==
    <<"1", "2", "3">>
\* the title of the remote page
PageTitle ==
    <<"L", "o", "g">>
\* the markdown files of the runs
FilePlanNow ==
    <<"#", "#", " ", "P", "l", "a", "n", "\n", "[", "[", "A", "l", "]", "]", " ", "g", "o",
    " ", "*", "n", "o", "w", "*">>
FilePlanWait ==
    <<"i", "n", "t", "r", "o", "\n", "#", "#", " ", "P", "l", "a", "n", "\n", "[", "[", "A",
    "l", "]", "]", " ", "w", "a", "i", "t">>
\* decision macros as written in the page editor
MacroPlan ==
    <<"<", "a", "c", ":", "s", "t", "r", "u", "c", "t", "u", "r", "e", "d", "-", "m", "a", "c",
    "r", "o", " ", "a", "c", ":", "n", "a", "m", "e", "=", "\"", "d", "e", "c", "i", "s", "i",
    "o", "n", "\"", " ", "a", "c", ":", "s", "c", "h", "e", "m", "a", "-", "v", "e", "r", "s",
    "i", "o", "n", "=", "\"", "1", "\"", " ", "a", "c", ":", "m", "a", "c", "r", "o", "-", "i",
    "d", "=", "\"", "m", "1", "\"", ">", "\n", " ", " ", " ", " ", "<", "a", "c", ":", "p",
    "a", "r", "a", "m", "e", "t", "e", "r", " ", "a", "c", ":", "n", "a", "m", "e", "=", "\"",
    "t", "i", "t", "l", "e", "\"", ">", "P", "l", "a", "n", "<", "/", "a", "c", ":", "p", "a",
    "r", "a", "m", "e", "t", "e", "r", ">", "\n", " ", " ", " ", " ", "<", "a", "c", ":", "p",
    "a", "r", "a", "m", "e", "t", "e", "r", " ", "a", "c", ":", "n", "a", "m", "e", "=", "\"",
    "o", "w", "n", "e", "r", "\"", ">", "A", "l", "<", "/", "a", "c", ":", "p", "a", "r", "a",
    "m", "e", "t", "e", "r", ">", "\n", " ", " ", " ", " ", "<", "a", "c", ":", "r", "i", "c",
    "h", "-", "t", "e", "x", "t", "-", "b", "o", "d", "y", ">", "\n", " ", " ", " ", " ", " ",
    " ", " ", " ", "<", "p", ">", "w", "a", "i", "t", "<", "/", "p", ">", "\n", " ", " ", " ",
    " ", "<", "/", "a", "c", ":", "r", "i", "c", "h", "-", "t", "e", "x", "t", "-", "b", "o",
    "d", "y", ">", "\n", "<", "/", "a", "c", ":", "s", "t", "r", "u", "c", "t", "u", "r", "e",
    "d", "-", "m", "a", "c", "r", "o", ">">>
MacroLegacy ==
    <<"<", "a", "c", ":", "s", "t", "r", "u", "c", "t", "u", "r", "e", "d", "-", "m", "a", "c",
    "r", "o", " ", "a", "c", ":", "n", "a", "m", "e", "=", "\"", "d", "e", "c", "i", "s", "i",
    "o", "n", "\"", " ", "a", "c", ":", "s", "c", "h", "e", "m", "a", "-", "v", "e", "r", "s",
    "i", "o", "n", "=", "\"", "1", "\"", " ", "a", "c", ":", "m", "a", "c", "r", "o", "-", "i",
    "d", "=", "\"", "m", "2", "\"", ">", "\n", " ", " ", " ", " ", "<", "a", "c", ":", "p",
    "a", "r", "a", "m", "e", "t", "e", "r", " ", "a", "c", ":", "n", "a", "m", "e", "=", "\"",
    "t", "i", "t", "l", "e", "\"", ">", "L", "e", "g", "a", "c", "y", " ", "N", "o", "t", "e",
    "<", "/", "a", "c", ":", "p", "a", "r", "a", "m", "e", "t", "e", "r", ">", "\n", " ", " ",
    " ", " ", "<", "a", "c", ":", "p", "a", "r", "a", "m", "e", "t", "e", "r", " ", "a", "c",
    ":", "n", "a", "m", "e", "=", "\"", "o", "w", "n", "e", "r", "\"", ">", "B", "o", "<", "/",
    "a", "c", ":", "p", "a", "r", "a", "m", "e", "t", "e", "r", ">", "\n", " ", " ", " ", " ",
    "<", "a", "c", ":", "r", "i", "c", "h", "-", "t", "e", "x", "t", "-", "b", "o", "d", "y",
    ">", "\n", " ", " ", " ", " ", " ", " ", " ", " ", "<", "p", ">", "o", "l", "d", "<", "/",
    "p", ">", "\n", " ", " ", " ", " ", "<", "/", "a", "c", ":", "r", "i", "c", "h", "-", "t",
    "e", "x", "t", "-", "b", "o", "d", "y", ">", "\n", "<", "/", "a", "c", ":", "s", "t", "r",
    "u", "c", "t", "u", "r", "e", "d", "-", "m", "a", "c", "r", "o", ">">>
\* markdown sections for the reconciler: title Accepted with owner 'b|c' and description 'd',
\* title Accepted with owner 'b' and description 'd', title B without owner
SectionBarOwner ==
    <<"#", "#", " ", "A", "c", "c", "e", "p", "t", "e", "d", "\n", "[", "[", "b", "|", "c",
    "]", "]", "d">>
SectionPlain ==
    <<"#", "#", " ", "A", "c", "c", "e", "p", "t", "e", "d", "\n", "[", "[", "b", "]", "]",
    "d">>
SectionOther ==
    <<"#", "#", " ", "B", "\n", "x">>
\* remote macros for the reconciler: title Accepted with owner 'b' and description
\* 'c|d', title Accepted with owner 'b' and description 'd', title L
MacroBarDescription ==
    <<"<", "a", "c", ":", "s", "t", "r", "u", "c", "t", "u", "r", "e", "d", "-", "m", "a", "c",
    "r", "o", " ", "a", "c", ":", "n", "a", "m", "e", "=", "\"", "d", "e", "c", "i", "s", "i",
    "o", "n", "\"", " ", "a", "c", ":", "s", "c", "h", "e", "m", "a", "-", "v", "e", "r", "s",
    "i", "o", "n", "=", "\"", "1", "\"", " ", "a", "c", ":", "m", "a", "c", "r", "o", "-", "i",
    "d", "=", "\"", "m", "3", "\"", ">", "\n", " ", " ", " ", " ", "<", "a", "c", ":", "p",
    "a", "r", "a", "m", "e", "t", "e", "r", " ", "a", "c", ":", "n", "a", "m", "e", "=", "\"",
    "t", "i", "t", "l", "e", "\"", ">", "A", "c", "c", "e", "p", "t", "e", "d", "<", "/", "a",
    "c", ":", "p", "a", "r", "a", "m", "e", "t", "e", "r", ">", "\n", " ", " ", " ", " ", "<",
    "a", "c", ":", "p", "a", "r", "a", "m", "e", "t", "e", "r", " ", "a", "c", ":", "n", "a",
    "m", "e", "=", "\"", "o", "w", "n", "e", "r", "\"", ">", "b", "<", "/", "a", "c", ":", "p",
    "a", "r", "a", "m", "e", "t", "e", "r", ">", "\n", " ", " ", " ", " ", "<", "a", "c", ":",
    "r", "i", "c", "h", "-", "t", "e", "x", "t", "-", "b", "o", "d", "y", ">", "\n", " ", " ",
    " ", " ", " ", " ", " ", " ", "<", "p", ">", "c", "|", "d", "<", "/", "p", ">", "\n", " ",
    " ", " ", " ", "<", "/", "a", "c", ":", "r", "i", "c", "h", "-", "t", "e", "x", "t", "-",
    "b", "o", "d", "y", ">", "\n", "<", "/", "a", "c", ":", "s", "t", "r", "u", "c", "t", "u",
    "r", "e", "d", "-", "m", "a", "c", "r", "o", ">">>
MacroPlain ==
    <<"<", "a", "c", ":", "s", "t", "r", "u", "c", "t", "u", "r", "e", "d", "-", "m", "a", "c",
    "r", "o", " ", "a", "c", ":", "n", "a", "m", "e", "=", "\"", "d", "e", "c", "i", "s", "i",
    "o", "n", "\"", " ", "a", "c", ":", "s", "c", "h", "e", "m", "a", "-", "v", "e", "r", "s",
    "i", "o", "n", "=", "\"", "1", "\"", " ", "a", "c", ":", "m", "a", "c", "r", "o", "-", "i",
    "d", "=", "\"", "m", "4", "\"", ">", "\n", " ", " ", " ", " ", "<", "a", "c", ":", "p",
    "a", "r", "a", "m", "e", "t", "e", "r", " ", "a", "c", ":", "n", "a", "m", "e", "=", "\"",
    "t", "i", "t", "l", "e", "\"", ">", "A", "c", "c", "e", "p", "t", "e", "d", "<", "/", "a",
    "c", ":", "p", "a", "r", "a", "m", "e", "t", "e", "r", ">", "\n", " ", " ", " ", " ", "<",
    "a", "c", ":", "p", "a", "r", "a", "m", "e", "t", "e", "r", " ", "a", "c", ":", "n", "a",
    "m", "e", "=", "\"", "o", "w", "n", "e", "r", "\"", ">", "b", "<", "/", "a", "c", ":", "p",
    "a", "r", "a", "m", "e", "t", "e", "r", ">", "\n", " ", " ", " ", " ", "<", "a", "c", ":",
    "r", "i", "c", "h", "-", "t", "e", "x", "t", "-", "b", "o", "d", "y", ">", "\n", " ", " ",
    " ", " ", " ", " ", " ", " ", "<", "p", ">", "d", "<", "/", "p", ">", "\n", " ", " ", " ",
    " ", "<", "/", "a", "c", ":", "r", "i", "c", "h", "-", "t", "e", "x", "t", "-", "b", "o",
    "d", "y", ">", "\n", "<", "/", "a", "c", ":", "s", "t", "r", "u", "c", "t", "u", "r", "e",
    "d", "-", "m", "a", "c", "r", "o", ">">>
MacroOther ==
    <<"<", "a", "c", ":", "s", "t", "r", "u", "c", "t", "u", "r", "e", "d", "-", "m", "a", "c",
    "r", "o", " ", "a", "c", ":", "n", "a", "m", "e", "=", "\"", "d", "e", "c", "i", "s", "i",
    "o", "n", "\"", " ", "a", "c", ":", "s", "c", "h", "e", "m", "a", "-", "v", "e", "r", "s",
    "i", "o", "n", "=", "\"", "1", "\"", " ", "a", "c", ":", "m", "a", "c", "r", "o", "-", "i",
    "d", "=", "\"", "m", "5", "\"", ">", "\n", " ", " ", " ", " ", "<", "a", "c", ":", "p",
    "a", "r", "a", "m", "e", "t", "e", "r", " ", "a", "c", ":", "n", "a", "m", "e", "=", "\"",
    "t", "i", "t", "l", "e", "\"", ">", "L", "<", "/", "a", "c", ":", "p", "a", "r", "a", "m",
    "e", "t", "e", "r", ">", "\n", " ", " ", " ", " ", "<", "a", "c", ":", "p", "a", "r", "a",
    "m", "e", "t", "e", "r", " ", "a", "c", ":", "n", "a", "m", "e", "=", "\"", "o", "w", "n",
    "e", "r", "\"", ">", "U", "n", "a", "s", "s", "i", "g", "n", "e", "d", "<", "/", "a", "c",
    ":", "p", "a", "r", "a", "m", "e", "t", "e", "r", ">", "\n", " ", " ", " ", " ", "<", "a",
    "c", ":", "r", "i", "c", "h", "-", "t", "e", "x", "t", "-", "b", "o", "d", "y", ">", "\n",
    " ", " ", " ", " ", " ", " ", " ", " ", "<", "p", ">", "o", "l", "d", "<", "/", "p", ">",
    "\n", " ", " ", " ", " ", "<", "/", "a", "c", ":", "r", "i", "c", "h", "-", "t", "e", "x",
    "t", "-", "b", "o", "d", "y", ">", "\n", "<", "/", "a", "c", ":", "s", "t", "r", "u", "c",
    "t", "u", "r", "e", "d", "-", "m", "a", "c", "r", "o", ">">>
\* the clock readings of the runs: datetime.now() as %Y-%m-%d and %H:%M:%S
Clock ==
    << [date |-> <<"2", "0", "2", "5", "-", "0", "1", "-", "0", "1">>,
        time |-> <<"0", "9", ":", "0", "0", ":", "0", "0">>],
       [date |-> <<"2", "0", "2", "5", "-", "0", "1", "-", "0", "2">>,
        time |-> <<"0", "9", ":", "3", "0", ":", "0", "0">>] >>


\* the number of runs of sync_page_with_markdown in one behaviour
MaxRuns == 2
\* the longest markdown and remote decision sequences given to sync_decisions
MaxDecisions == 2

Variants == {"logger", "enhanced"}
MarkdownFiles == {FilePlanNow, FilePlanWait}
\* the remote page before the first run: empty, or edited by hand
InitialBodies == {<<>>, MacroPlan \o MACRO_SEP \o MacroLegacy}
\* the remote calls that raise in a run: the fetch in
\* extract_existing_decisions, the title fetch in
\* create_decisions_page_content, the version fetch of the logger before
\* the update, and update_page
FaultSets(v) ==
    {{}, {"extract"}, {"title"}, {"update"}} \cup (IF v = "logger" THEN {{"version"}} ELSE {})

\* all sequences over S of length at most n
RECURSIVE SeqsUpTo(_, _)
SeqsUpTo(S, n) ==
    IF n = 0 THEN {<<>>}
    ELSE LET shorter == SeqsUpTo(S, n - 1)
         IN  shorter \cup {Append(q, x) : q \in shorter, x \in S}

\* the reconciliation with the decisions found only in Confluence dropped
\* when preserve_confluence_only is off
reconciled_dropping(markdown_decisions, confluence_decisions, today, preserve_confluence_only) ==
    LET r == sync_decisions(markdown_decisions, confluence_decisions, today)
    IN  IF preserve_confluence_only THEN r
        ELSE [r EXCEPT !.final_decisions = SubSeq(@, 1, Len(markdown_decisions))]

\* sync_page_with_markdown's call of sync_decisions: the parameter
\* preserve_confluence_only is not read anywhere in the method
reconciled(markdown_decisions, confluence_decisions, today, preserve_confluence_only) ==
    sync_decisions(markdown_decisions, confluence_decisions, today)

\* the variables main() reads, in the order of its report
EnvNames ==
    << "CONFLUENCE_URL", "CONFLUENCE_USERNAME", "CONFLUENCE_API_TOKEN",
       "DECISION_PAGE_ID", "DECISION_SPACE", "DECISION_MD_LOCATION" >>
\* the options that take the place of a variable, by variable
FlagOf ==
    [ DECISION_PAGE_ID |-> "page_id", DECISION_SPACE |-> "space_key",
      DECISION_MD_LOCATION |-> "markdown_file" ]
FlagNames == {FlagOf[v] : v \in DOMAIN FlagOf}
\* the variables a script requires: the older script takes the page id and
\* the file as positional arguments, which argparse itself requires
RequiredVars(v) == IF v = "logger" THEN EnvNames ELSE SubSeq(EnvNames, 1, 3)
\* a value that is unset (None) or empty
Unset == ""
\* the value a setting has: `args.x or os.getenv(var)`
setting(var, flags, env) ==
    IF var \in DOMAIN FlagOf /\ flags[FlagOf[var]] # Unset THEN flags[FlagOf[var]]
    ELSE env[var]
\* missing_vars with the first missing variable alone
missing_vars_first_only(v, flags, env) ==
    LET every == SelectSeq(RequiredVars(v), LAMBDA var :
                     IF v = "logger" THEN setting(var, flags, env) = Unset
                     ELSE env[var] = Unset)
    IN  IF every = <<>> THEN <<>> ELSE <<every[1]>>
\* missing_vars of main()
missing_vars(v, flags, env) ==
    SelectSeq(RequiredVars(v), LAMBDA var :
        IF v = "logger" THEN setting(var, flags, env) = Unset ELSE env[var] = Unset)
\* main() without the --dry-run branch
proceeds_always(dry_run) == TRUE
\* whether main() goes on after connecting: the --dry-run branch exits
proceeds(dry_run) == ~dry_run
\* the exit code with exceptions of the run not turned into a failure
exit_code_of_errors_unseen(raised, errors) == 0
\* the exit code after sync_page_with_markdown returned or raised
exit_code_of(raised, errors) == IF raised \/ errors # <<>> THEN 1 ELSE 0
\* the exit status of an interpreter ended by an uncaught KeyboardInterrupt
SIGINT_EXIT == 130
\* the most options given on one command line
MaxFlags == 1
\* the state of main() when the class is used without it
Imported ==
    [ env |-> [v \in {} |-> Unset], flags |-> [f \in {} |-> Unset], dry_run |-> FALSE,
      no_preserve |-> FALSE, stage |-> "imported", missing_vars |-> <<>>,
      file_found |-> TRUE, remote_calls |-> 0, message |-> "", exit_code |-> -1 ]

(***************************************************************************)
(* status_counter.py                                                       *)
(***************************************************************************)
\* the markers of update_page
begin_marker ==
    <<"<", "!", "-", " ", "L", "A", "B", "E", "L", "_", "T", "A", "B", "L", "E", "_", "B", "E",
    "G", "I", "N", " ", "-", "!", ">">>
end_marker ==
    <<"<", "!", "-", " ", "L", "A", "B", "E", "L", "_", "T", "A", "B", "L", "E", "_", "E", "N",
    "D", " ", "-", "!", ">">>
\* the pieces of macro_pattern and of the two parameter patterns
MACRO_TAG ==
    <<"<", "a", "c", ":", "s", "t", "r", "u", "c", "t", "u", "r", "e", "d", "-", "m", "a", "c",
    "r", "o">>
NAME_STATUS ==
    <<"a", "c", ":", "n", "a", "m", "e", "=", "\"", "s", "t", "a", "t", "u", "s", "\"">>
PARAM_TAG ==
    <<"<", "a", "c", ":", "p", "a", "r", "a", "m", "e", "t", "e", "r">>
NAME_COLOUR ==
    <<"a", "c", ":", "n", "a", "m", "e", "=", "\"", "c", "o", "l", "o", "u", "r", "\"">>
NAME_TITLE ==
    <<"a", "c", ":", "n", "a", "m", "e", "=", "\"", "t", "i", "t", "l", "e", "\"">>
Unknown ==
    <<"U", "n", "k", "n", "o", "w", "n">>
\* the pieces of build_status_macro
BUILD_1 ==
    <<"<", "a", "c", ":", "s", "t", "r", "u", "c", "t", "u", "r", "e", "d", "-", "m", "a", "c",
    "r", "o", " ", "a", "c", ":", "n", "a", "m", "e", "=", "\"", "s", "t", "a", "t", "u", "s",
    "\"", " ", "a", "c", ":", "s", "c", "h", "e", "m", "a", "-", "v", "e", "r", "s", "i", "o",
    "n", "=", "\"", "1", "\"", ">", "<", "a", "c", ":", "p", "a", "r", "a", "m", "e", "t", "e",
    "r", " ", "a", "c", ":", "n", "a", "m", "e", "=", "\"", "c", "o", "l", "o", "u", "r", "\"",
    ">">>
BUILD_2 ==
    <<"<", "/", "a", "c", ":", "p", "a", "r", "a", "m", "e", "t", "e", "r", ">", "<", "a", "c",
    ":", "p", "a", "r", "a", "m", "e", "t", "e", "r", " ", "a", "c", ":", "n", "a", "m", "e",
    "=", "\"", "t", "i", "t", "l", "e", "\"", ">">>
BUILD_3 ==
    <<"<", "/", "a", "c", ":", "p", "a", "r", "a", "m", "e", "t", "e", "r", ">", "<", "/", "a",
    "c", ":", "s", "t", "r", "u", "c", "t", "u", "r", "e", "d", "-", "m", "a", "c", "r", "o",
    ">">>
\* the pieces of generate_table_html
TABLE_HEAD ==
    <<"<", "t", "a", "b", "l", "e", ">", "<", "t", "h", "e", "a", "d", ">", "<", "t", "r", ">",
    "<", "t", "h", ">", "S", "t", "a", "t", "u", "s", "<", "/", "t", "h", ">", "<", "t", "h",
    ">", "O", "c", "c", "u", "r", "r", "e", "n", "c", "e", "s", "<", "/", "t", "h", ">", "<",
    "/", "t", "r", ">", "<", "/", "t", "h", "e", "a", "d", ">", "<", "t", "b", "o", "d", "y",
    ">">>
ROW_1 ==
    <<"<", "t", "r", ">", "<", "t", "d", ">">>
ROW_2 ==
    <<"<", "/", "t", "d", ">", "<", "t", "d", ">">>
ROW_3 ==
    <<"<", "/", "t", "d", ">", "<", "/", "t", "r", ">">>
TOTAL_ROW ==
    <<"<", "t", "r", ">", "<", "t", "d", " ", "c", "o", "l", "s", "p", "a", "n", "=", "\"",
    "2", "\"", ">", "<", "s", "t", "r", "o", "n", "g", ">", "T", "o", "t", "a", "l", " ", "b",
    "y", " ", "C", "o", "l", "o", "r", "<", "/", "s", "t", "r", "o", "n", "g", ">", "<", "/",
    "t", "d", ">", "<", "/", "t", "r", ">">>
TABLE_TAIL ==
    <<"<", "/", "t", "b", "o", "d", "y", ">", "<", "/", "t", "a", "b", "l", "e", ">">>

\* str.lower(): the patterns of this script are lower-case literals matched
\* with re.IGNORECASE, that is, against the lower-cased text
casefold(s) == [i \in 1..Len(s) |-> lower(s[i])]

\* One match at i of  tag [^>]+ name [^>]* > (.*?) close  with re.DOTALL and
\* re.IGNORECASE in the text s, whose lower-cased form is ls, as
\* <<[group, end]>> (end: the index after the match), or <<>>. The name
\* must lie inside the opening tag, after at least one character; the lazy
\* group ends at the first close after the tag.
element_at(s, ls, i, tag, name, close) ==
    IF ~MatchAt(ls, i, tag) THEN <<>>
    ELSE LET p == i + Len(tag)
             gt == RunEnd(ls, p, {">"})
             c == Find(ls, close, gt + 1)
         IN  IF /\ gt <= Len(ls)
                /\ \E j \in (p + 1)..(gt - Len(name)) : MatchAt(ls, j, name)
                /\ c # 0
             THEN << [group |-> SubSeq(s, gt + 1, c - 1), end |-> c + Len(close)] >>
             ELSE <<>>

\* re.findall(macro_pattern, s[i:], flags=re.DOTALL | re.IGNORECASE)
RECURSIVE findall_status(_, _, _)
findall_status(s, ls, i) ==
    LET j == Find(ls, MACRO_TAG, i)
        m == element_at(s, ls, j, MACRO_TAG, NAME_STATUS, MACRO_CLOSE)
    IN  IF j = 0 THEN <<>>
        ELSE IF m = <<>> THEN findall_status(s, ls, j + 1)
        ELSE <<m[1].group>> \o findall_status(s, ls, m[1].end)

\* re.search of a parameter pattern in a block from index i on:
\* group(1).strip(), or the default
RECURSIVE parameter_from(_, _, _, _, _)
parameter_from(block, lblock, i, name, default) ==
    LET j == Find(lblock, PARAM_TAG, i)
        m == element_at(block, lblock, j, PARAM_TAG, name, PARAM_CLOSE)
    IN  IF j = 0 THEN default
        ELSE IF m = <<>> THEN parameter_from(block, lblock, j + 1, name, default)
        ELSE strip(m[1].group)
parameter_of(block, name, default) ==
    parameter_from(block, casefold(block), 1, name, default)

\* extract_color_title_pairs: the (color, title) of every status macro
extract_color_title_pairs(page_content) ==
    LET macro_blocks == findall_status(page_content, casefold(page_content), 1)
    IN  [k \in 1..Len(macro_blocks) |->
            [ color |-> parameter_of(macro_blocks[k], NAME_COLOUR, Grey),
              title |-> parameter_of(macro_blocks[k], NAME_TITLE, Unknown) ]]

\* Counter(pairs): the distinct pairs in the order of their first occurrence,
\* each with its number of occurrences
RECURSIVE counter_of(_)
counter_of(pairs) ==
    IF pairs = <<>> THEN <<>>
    ELSE LET head == counter_of(SubSeq(pairs, 1, Len(pairs) - 1))
             last == pairs[Len(pairs)]
             K == {k \in 1..Len(head) : head[k].pair = last}
         IN  IF K = {} THEN Append(head, [pair |-> last, count |-> 1])
             ELSE [head EXCEPT ![Min(K)].count = @ + 1]

\* aggregated_color_counts: the colours in the order of their first
\* occurrence, each with the sum of the counts of its pairs
RECURSIVE aggregated_color_counts(_)
aggregated_color_counts(status_counts) ==
    IF status_counts = <<>> THEN <<>>
    ELSE LET head == aggregated_color_counts(SubSeq(status_counts, 1, Len(status_counts) - 1))
             last == status_counts[Len(status_counts)]
             K == {k \in 1..Len(head) : head[k].color = last.pair.color}
         IN  IF K = {} THEN Append(head, [color |-> last.pair.color, count |-> last.count])
             ELSE [head EXCEPT ![Min(K)].count = @ + last.count]

build_status_macro(color, title) ==
    BUILD_1 \o color \o BUILD_2 \o title \o BUILD_3

\* generate_table_html: a row for each pair, the separator row, a row for
\* each colour
generate_table_html(status_counts) ==
    LET totals == aggregated_color_counts(status_counts)
        row(macro, count) == ROW_1 \o macro \o ROW_2 \o str_int(count) \o ROW_3
    IN  TABLE_HEAD
            \o join(<<>>, [k \in 1..Len(status_counts) |->
                               row(build_status_macro(status_counts[k].pair.color,
                                                      status_counts[k].pair.title),
                                   status_counts[k].count)])
            \o TOTAL_ROW
            \o join(<<>>, [k \in 1..Len(totals) |->
                               row(build_status_macro(totals[k].color, totals[k].color),
                                   totals[k].count)])
            \o TABLE_TAIL

\* updated_content of update_page: start_index and end_index are the indices
\* of Python (0-based), start_index the one after the begin marker
updated_content(current_content, new_table_html) ==
    LET start_index == Find(current_content, begin_marker, 1) - 1 + Len(begin_marker)
        end_index == Find(current_content, end_marker, 1) - 1
    IN  IF Contains(current_content, begin_marker) /\ Contains(current_content, end_marker)
        THEN SubSeq(current_content, 1, start_index)
                 \o NL \o new_table_html \o NL \o From(current_content, end_index + 1)
        ELSE current_content \o NL \o begin_marker \o NL \o new_table_html \o NL
                 \o end_marker \o NL

\* the status counter before it has run
CounterIdle ==
    [ stage |-> "idle", runs |-> 0, page_content |-> <<>>, color_title_pairs |-> <<>>,
      new_table_html |-> <<>>, page_data |-> <<>>, updated_page |-> <<>>, tables |-> <<>> ]

(***************************************************************************)
(* la-bel-confluence.py                                                    *)
(***************************************************************************)
\* str.split(): the runs of characters that are not whitespace
RECURSIVE split_whitespace(_)
split_whitespace(text) ==
    LET start == SkipSpace(text, 1)
        stop == RunEnd(text, start, {" ", "\n", "\t", "\r"})
    IN  IF start > Len(text) THEN <<>>
        ELSE <<SubSeq(text, start, stop - 1)>> \o split_whitespace(From(text, stop))

\* the returns of add_labels_to_children that are due: a call whose loop over
\* the children has ended is taken off the stack
RECURSIVE returned(_)
returned(stack) ==
    IF stack # <<>> /\ stack[Len(stack)].child > Len(stack[Len(stack)].children)
    THEN returned(SubSeq(stack, 1, Len(stack) - 1))
    ELSE stack

\* the label manager before cascade_labels is called
ManagerIdle ==
    [ stage |-> "idle", children |-> <<>>, top_level_page |-> 0, text |-> <<>>,
      labels |-> <<>>, label |-> 1, stack |-> <<>>, labeled_pages |-> <<>>,
      attempts |-> <<>>, added |-> <<>>, failures |-> 0 ]

(***************************************************************************)
(* State                                                                   *)
(***************************************************************************)
VARIABLES
    variant,               \* which of the two scripts runs
    page,                  \* the remote page: title, body (storage value), version
    now,                   \* datetime.now() of the current run: date and time text
    runs,                  \* the number of runs started
    faults,                \* the remote calls that raise in the current run
    pc,                    \* the step of sync_page_with_markdown last completed
    markdown_content,      \* locals of sync_page_with_markdown
    markdown_decisions,
    confluence_decisions,
    final_decisions,
    sync_result,
    content,
    updates,               \* update_page calls issued by the current run
    log,                   \* one record per finished run
    cli,                   \* main(): arguments, environment, position, exit code
    counter,               \* status_counter.py: the locals of main() and update_page()
    manager                \* la-bel-confluence.py: the label manager and its call stack

vars ==
    << variant, page, now, runs, faults, pc, markdown_content, markdown_decisions,
       confluence_decisions, final_decisions, sync_result, content, updates, log, cli,
       counter, manager >>

\* (title, owner, description) of each decision of a sequence
Contents(decisions) ==
    [i \in 1..Len(decisions) |->
        <<decisions[i].title, decisions[i].owner, decisions[i].description>>]

Titles(decisions) == {decisions[i].title : i \in 1..Len(decisions)}

(***************************************************************************)
(* sync_page_with_markdown, step by step                                   *)
(***************************************************************************)
Init ==
    /\ variant \in Variants
    /\ page \in {[title |-> PageTitle, body |-> b, version |-> 1] : b \in InitialBodies}
    /\ now = Clock[1]
    /\ runs = 0
    /\ faults = {}
    /\ pc = "idle"
    /\ markdown_content = <<>>
    /\ markdown_decisions = <<>>
    /\ confluence_decisions = <<>>
    /\ final_decisions = <<>>
    /\ sync_result = EmptySyncResult
    /\ content = <<>>
    /\ updates = 0
    /\ log = <<>>
    /\ cli = Imported
    /\ counter = CounterIdle
    /\ manager = ManagerIdle

\* a run starts: open(markdown_file_path).read()
ReadMarkdown ==
    /\ pc \in {"idle", "done", "failed"}
    /\ runs < MaxRuns
    /\ runs' = runs + 1
    /\ \E k \in Max({runs, 1})..Min({runs + 1, Len(Clock)}) : now' = Clock[k]
    /\ \E file \in MarkdownFiles : markdown_content' = file
    /\ \E f \in FaultSets(variant) : faults' = f
    /\ pc' = "read"
    /\ markdown_decisions' = <<>>
    /\ confluence_decisions' = <<>>
    /\ final_decisions' = <<>>
    /\ sync_result' = EmptySyncResult
    /\ content' = <<>>
    /\ updates' = 0
    /\ UNCHANGED <<variant, page, log, cli, counter, manager >>

\* markdown_decisions = self.parse_markdown_decisions(markdown_content)
ParseMarkdown ==
    /\ pc = "read"
    /\ markdown_decisions' = parse_markdown_decisions(markdown_content, now.date, variant)
    /\ pc' = "parsed"
    /\ UNCHANGED << variant, page, now, runs, faults, markdown_content, confluence_decisions,
                    final_decisions, sync_result, content, updates, log, cli,
                    counter, manager >>

\* confluence_decisions = self.extract_existing_decisions(page_id)
ExtractExisting ==
    /\ pc = "parsed"
    /\ confluence_decisions' =
           extract_existing_decisions("extract" \notin faults, page.body, now.date)
    /\ pc' = "extracted"
    /\ UNCHANGED << variant, page, now, runs, faults, markdown_content, markdown_decisions,
                    final_decisions, sync_result, content, updates, log, cli,
                    counter, manager >>

\* final_decisions, sync_result = self.sync_decisions(...)
SyncDecisions ==
    /\ pc = "extracted"
    /\ LET r == reconciled(markdown_decisions, confluence_decisions, now.date,
                            ~cli.no_preserve)
       IN  /\ markdown_decisions' = r.markdown_decisions
           /\ final_decisions' = r.final_decisions
           /\ sync_result' = r.sync_result
    /\ pc' = "reconciled"
    /\ UNCHANGED << variant, page, now, runs, faults, markdown_content, confluence_decisions,
                    content, updates, log, cli, counter, manager >>

\* content = self.create_decisions_page_content(final_decisions, page_id, sync_result)
CreateContent ==
    /\ pc = "reconciled"
    /\ content' =
           IF variant = "logger"
           THEN create_decisions_page_content(
                    final_decisions,
                    IF "title" \in faults THEN DecisionLog ELSE page.title,
                    sync_result, now)
           ELSE create_decisions_page_content_enhanced(
                    final_decisions,
                    IF "title" \in faults THEN PAGE_ID ELSE page.title,
                    sync_result, now)
    /\ pc' = "rendered"
    /\ UNCHANGED << variant, page, now, runs, faults, markdown_content, markdown_decisions,
                    confluence_decisions, final_decisions, sync_result, updates, log,
                    cli, counter, manager >>

\* the record of a finished run
RunRecord(result, ok) ==
    [ markdown_content |-> markdown_content,
      merged |-> Contents(final_decisions),
      sync_result |-> result,
      body_before |-> page.body,
      ok |-> ok ]

\* UpdatePage with the write left out when the content is the page's own
UpdatePage_unless_same ==
    /\ pc = "rendered"
    /\ IF (variant = "logger" /\ "version" \in faults) \/ "update" \in faults
       THEN /\ sync_result' = [sync_result EXCEPT !.errors = Append(@, "update failed")]
            /\ updates' = IF "update" \in faults THEN updates + 1 ELSE updates
            /\ pc' = "failed"
            /\ log' = Append(log, RunRecord(sync_result', FALSE))
            /\ UNCHANGED page
       ELSE /\ page' = IF content = page.body THEN page
                       ELSE [page EXCEPT !.body = content, !.version = @ + 1]
            /\ updates' = IF content = page.body THEN updates ELSE updates + 1
            /\ pc' = "done"
            /\ log' = Append(log, RunRecord(sync_result, TRUE))
            /\ UNCHANGED sync_result
    /\ UNCHANGED << variant, now, runs, faults, markdown_content, markdown_decisions,
                    confluence_decisions, final_decisions, content, cli, counter, manager >>

\* the rest of the try block: (the logger fetches the page version,) then
\* update_page with the full content; an exception is appended to
\* sync_result.errors and raised again
UpdatePage ==
    /\ pc = "rendered"
    /\ IF (variant = "logger" /\ "version" \in faults) \/ "update" \in faults
       THEN /\ sync_result' = [sync_result EXCEPT !.errors = Append(@, "update failed")]
            /\ updates' = IF "update" \in faults THEN updates + 1 ELSE updates
            /\ pc' = "failed"
            /\ log' = Append(log, RunRecord(sync_result', FALSE))
            /\ UNCHANGED page
       ELSE /\ page' = [page EXCEPT !.body = content, !.version = @ + 1]
            /\ updates' = updates + 1
            /\ pc' = "done"
            /\ log' = Append(log, RunRecord(sync_result, TRUE))
            /\ UNCHANGED sync_result
    /\ UNCHANGED << variant, now, runs, faults, markdown_content, markdown_decisions,
                    confluence_decisions, final_decisions, content, cli, counter, manager >>

Next ==
    \/ ReadMarkdown
    \/ ParseMarkdown
    \/ ExtractExisting
    \/ SyncDecisions
    \/ CreateContent
    \/ UpdatePage

Spec == Init /\ [][Next]_vars


\* the scenario of the specification
FileShip ==
    <<"#", "#", " ", "S", "h", "i", "p", " ", "v", "2", " ", "[", "[", "A", "l", "i", "c", "e",
    "]", "]", "\n", "*", "*", "S", "t", "a", "t", "u", "s", "*", "*", ":", " ", "A", "p", "p",
    "r", "o", "v", "e", "d", "\n", "S", "h", "i", "p", " ", "i", "t", ".">>
\* the parts the parsed files are put together from
Intro ==
    <<"i", "n", "t", "r", "o", "\n">>
HeadingPlain ==
    <<"#", "#", " ", "S", "h", "i", "p", " ", "v", "2">>
HeadingOwner ==
    <<"#", "#", " ", "S", "h", "i", "p", " ", "v", "2", " ", "[", "[", "A", "l", "i", "c", "e",
    "]", "]">>
StatusApproved ==
    <<"\n", "*", "*", "S", "t", "a", "t", "u", "s", "*", "*", ":", " ", "A", "p", "p", "r",
    "o", "v", "e", "d">>
StatusOpen ==
    <<"\n", "*", "*", "S", "t", "a", "t", "u", "s", "*", "*", ":", " ", "O", "p", "e", "n">>
DateJan ==
    <<"\n", "*", "*", "D", "a", "t", "e", "*", "*", ":", " ", "2", "0", "2", "5", "-", "0",
    "1", "-", "0", "5">>
DateFeb ==
    <<"\n", "*", "*", "D", "a", "t", "e", "*", "*", ":", " ", "2", "0", "2", "5", "-", "0",
    "2", "-", "0", "1">>
BodyShip ==
    <<"\n", "S", "h", "i", "p", " ", "i", "t", ".">>
BodyOwner ==
    <<"\n", "A", "s", "k", " ", "[", "[", "B", "o", "]", "]", " ", "f", "i", "r", "s", "t",
    ".">>
\* the fields the scenario expects
ShipV2 ==
    <<"S", "h", "i", "p", " ", "v", "2">>
Alice ==
    <<"A", "l", "i", "c", "e">>
ShipIt ==
    <<"S", "h", "i", "p", " ", "i", "t", ".">>

\* the markdown files given to parse_markdown_decisions alone: one section
\* with or without text before it, an owner in the heading, a status line, a
\* date line and a body
ParseFiles ==
    { pre \o heading \o status \o date \o body :
        pre \in {<<>>, Intro},
        heading \in {HeadingPlain, HeadingOwner},
        status \in {<<>>, StatusApproved, StatusOpen},
        date \in {<<>>, DateJan, DateFeb},
        body \in {<<>>, BodyShip, BodyOwner} }

ClockReadings == {Clock[i] : i \in 1..Len(Clock)}

(***************************************************************************)
(* parse_markdown_decisions alone                                          *)
(***************************************************************************)
InitParse ==
    /\ variant \in Variants
    /\ page = [title |-> PageTitle, body |-> <<>>, version |-> 1]
    /\ now \in ClockReadings
    /\ runs = 1
    /\ faults = {}
    /\ pc = "read"
    /\ markdown_content \in ParseFiles
    /\ markdown_decisions = <<>>
    /\ confluence_decisions = <<>>
    /\ final_decisions = <<>>
    /\ sync_result = EmptySyncResult
    /\ content = <<>>
    /\ updates = 0
    /\ log = <<>>
    /\ cli = Imported
    /\ counter = CounterIdle
    /\ manager = ManagerIdle

NextParse == ParseMarkdown

SpecParse == InitParse /\ [][NextParse]_vars

(***************************************************************************)
(* sync_decisions alone: a run that has parsed a file of up to             *)
(* MaxDecisions sections and extracted a page of up to MaxDecisions macros *)
(***************************************************************************)
SyncSections == {SectionBarOwner, SectionPlain, SectionOther}
SyncMacros == {MacroBarDescription, MacroPlain, MacroOther}

InitSync ==
    /\ now \in ClockReadings
    /\ \E macros \in SeqsUpTo(SyncMacros, MaxDecisions) :
           page = [title |-> PageTitle, body |-> join(MACRO_SEP, macros), version |-> 1]
    /\ confluence_decisions = extract_existing_decisions(TRUE, page.body, now.date)
    /\ variant \in Variants
    /\ \E sections \in SeqsUpTo(SyncSections, MaxDecisions) :
           markdown_content = join(NL, sections)
    /\ markdown_decisions = parse_markdown_decisions(markdown_content, now.date, variant)
    /\ runs = 1
    /\ faults = {}
    /\ pc = "extracted"
    /\ final_decisions = <<>>
    /\ sync_result = EmptySyncResult
    /\ content = <<>>
    /\ updates = 0
    /\ log = <<>>
    /\ cli = Imported
    /\ counter = CounterIdle
    /\ manager = ManagerIdle

NextSync == SyncDecisions

SpecSync == InitSync /\ [][NextSync]_vars


(***************************************************************************)
(* main(): the command line around one run                                 *)
(***************************************************************************)
\* the command lines and environments main() is started with
CommandLines(v) ==
    { [ env |-> e, flags |-> f, dry_run |-> d, no_preserve |-> n, stage |-> "start",
        missing_vars |-> <<>>, file_found |-> TRUE, remote_calls |-> 0, message |-> "", exit_code |-> -1 ] :
        e \in [{RequiredVars(v)[k] : k \in 1..Len(RequiredVars(v))} -> {Unset, "env"}],
        f \in IF v = "logger"
              THEN {g \in [FlagNames -> {Unset, "arg"}] :
                       Cardinality({x \in FlagNames : g[x] # Unset}) <= MaxFlags}
              ELSE {[x \in FlagNames |-> IF x = "space_key" THEN Unset ELSE "arg"]},
        d \in BOOLEAN, n \in BOOLEAN }

InitMain ==
    /\ variant \in Variants
    /\ page \in {[title |-> PageTitle, body |-> b, version |-> 1] : b \in InitialBodies}
    /\ now = Clock[1]
    /\ runs = MaxRuns - 1
    /\ faults = {}
    /\ pc = "main"
    /\ markdown_content = <<>>
    /\ markdown_decisions = <<>>
    /\ confluence_decisions = <<>>
    /\ final_decisions = <<>>
    /\ sync_result = EmptySyncResult
    /\ content = <<>>
    /\ updates = 0
    /\ log = <<>>
    /\ cli \in CommandLines(variant)
    /\ counter = CounterIdle
    /\ manager = ManagerIdle

pipeline ==
    << variant, page, now, runs, faults, markdown_content, markdown_decisions,
       confluence_decisions, final_decisions, sync_result, content, updates, log,
       counter, manager >>

\* main() up to the try block: the settings are combined and checked, the
\* missing ones reported together, then the file is looked for
CheckSettings ==
    /\ cli.stage = "start"
    /\ LET missing == missing_vars(variant, cli.flags, cli.env)
       IN  IF missing # <<>>
           THEN cli' = [cli EXCEPT !.missing_vars = missing, !.exit_code = 1,
                                   !.message = "Missing required environment variables",
                                   !.stage = "exited"]
           ELSE \E found \in BOOLEAN :
                    cli' = IF found THEN [cli EXCEPT !.stage = "checked"]
                           ELSE [cli EXCEPT !.file_found = FALSE, !.exit_code = 1,
                                            !.message = "Markdown file not found",
                                            !.stage = "exited"]
    /\ UNCHANGED <<pipeline, pc>>

\* ConfluenceDecisionSync(...) calls get_all_spaces and raises when it fails;
\* then the --dry-run branch
Connect ==
    /\ cli.stage = "checked"
    /\ \E connected \in BOOLEAN :
           IF connected /\ proceeds(cli.dry_run)
           THEN /\ cli' = [cli EXCEPT !.remote_calls = @ + 1, !.stage = "syncing"]
                /\ pc' = "idle"
           ELSE /\ cli' = [cli EXCEPT !.remote_calls = @ + 1, !.exit_code = 1,
                                      !.message = IF connected
                                                  THEN "Dry run mode not implemented yet"
                                                  ELSE "Error",
                                      !.stage = "exited"]
                /\ UNCHANGED pc
    /\ UNCHANGED pipeline

\* sync_page_with_markdown returned or raised: main() ends
Exit ==
    /\ cli.stage = "syncing"
    /\ pc \in {"done", "failed"}
    /\ cli' = [cli EXCEPT !.exit_code = exit_code_of(pc = "failed", sync_result.errors),
                          !.message = IF pc = "failed" THEN "Error"
                                      ELSE IF sync_result.errors # <<>>
                                           THEN "Completed with errors"
                                           ELSE "Synchronization completed successfully",
                          !.stage = "exited"]
    /\ UNCHANGED <<pipeline, pc>>

\* KeyboardInterrupt: caught inside the try block of main(), and ending the
\* interpreter when it arrives before
Interrupt ==
    /\ cli.stage \in {"start", "checked", "syncing"}
    /\ cli' = [cli EXCEPT !.exit_code = IF cli.stage = "start" THEN SIGINT_EXIT ELSE 1,
                          !.message = IF cli.stage = "start" THEN "KeyboardInterrupt"
                                      ELSE "Synchronization cancelled by user",
                          !.stage = "exited"]
    /\ pc' = "interrupted"
    /\ UNCHANGED pipeline

NextMain ==
    \/ CheckSettings
    \/ Connect
    \/ ReadMarkdown
    \/ ParseMarkdown
    \/ ExtractExisting
    \/ SyncDecisions
    \/ CreateContent
    \/ UpdatePage
    \/ Exit
    \/ Interrupt

SpecMain == InitMain /\ [][NextMain]_vars

(***************************************************************************)
(* parse_markdown_decisions over files put together from lines             *)
(***************************************************************************)
LineIntro ==
    <<"i", "n", "t", "r", "o">>
LineHeading ==
    <<"#", "#", " ", "T">>
LineEmptyHeading ==
    <<"#", "#", " ">>
LineHashHeading ==
    <<"#", "#", " ", "#", "#", " ">>
LineOwnersHeading ==
    <<"#", "#", " ", "U", " ", "[", "[", "B", "o", "]", "]", " ", "x", " ", "[", "[", "C", "y",
    "]", "]">>
LineOwnerOpen ==
    <<"[", "[", "A", "l", "]", "]", " ", "g", "o", " ", "[", "[">>
LineOwnerClose ==
    <<"a", "]", "]", " ", "[", "[", "]", "]">>
LineStatus ==
    <<"*", "*", "S", "t", "a", "t", "u", "s", "*", "*", ":", " ", "D", "e", "f", "e", "r", "r",
    "e", "d">>
LineStatusEmpty ==
    <<"*", "*", "S", "t", "a", "t", "u", "s", "*", "*", ":">>
LineDecidedOpen ==
    <<"A", "p", "p", "r", "o", "v", "e", "d", " ", "a", "n", "d", " ", "O", "N", "G", "O", "I",
    "N", "G">>
LineOpenDeferred ==
    <<"i", "n", " ", "p", "r", "o", "g", "r", "e", "s", "s", ",", " ", "p", "o", "s", "t", "p",
    "o", "n", "e", "d">>
LineDeferred ==
    <<"P", "l", "a", "n", "n", "i", "n", "g", " ", "u", "n", "d", "e", "c", "i", "d", "e", "d">>
Lines ==
    { LineIntro, LineHeading, LineEmptyHeading, LineHashHeading, LineOwnersHeading,
      LineOwnerOpen, LineOwnerClose, LineStatus, LineStatusEmpty, LineDecidedOpen,
      LineOpenDeferred, LineDeferred }
\* the most lines of a file
MaxLines == 3

InitLines ==
    /\ variant \in Variants
    /\ page = [title |-> PageTitle, body |-> <<>>, version |-> 1]
    /\ now = Clock[1]
    /\ runs = 1
    /\ faults = {}
    /\ pc = "read"
    /\ \E lines \in SeqsUpTo(Lines, MaxLines) : markdown_content = join(NL, lines)
    /\ markdown_decisions = <<>>
    /\ confluence_decisions = <<>>
    /\ final_decisions = <<>>
    /\ sync_result = EmptySyncResult
    /\ content = <<>>
    /\ updates = 0
    /\ log = <<>>
    /\ cli = Imported
    /\ counter = CounterIdle
    /\ manager = ManagerIdle

NextLines == ParseMarkdown

SpecLines == InitLines /\ [][NextLines]_vars

(***************************************************************************)
(* create_decisions_page_content alone: a run that has parsed a file and    *)
(* reconciled it with an empty page                                        *)
(***************************************************************************)
\* the values of **Date**: lines: two dates, a date before 1900, and two
\* values strptime refuses (a word, a day the month does not have)
DateNew ==
    <<"2", "0", "2", "4", "-", "0", "3", "-", "0", "1">>
DateMid ==
    <<"2", "0", "2", "4", "-", "0", "1", "-", "0", "5">>
DateOld ==
    <<"1", "8", "9", "9", "-", "1", "2", "-", "3", "1">>
DateWord ==
    <<"s", "o", "o", "n">>
DateNoDay ==
    <<"2", "0", "2", "4", "-", "0", "2", "-", "3", "0">>
\* titles, owners, statuses and descriptions of the sections rendered alone
TitlePlain ==
    <<"T">>
TitleMeta ==
    <<"a", "<", "b", ">", " ", "&", " ", "\"", "c", "\"", " ", "'", "d", "'">>
OwnerPlain ==
    <<"A", "l">>
OwnerMeta ==
    <<"A", "&", "B", " ", "<", "x", ">">>
StatusApprovedLater ==
    <<"A", "p", "p", "r", "o", "v", "e", "d", ",", " ", "d", "e", "f", "e", "r", "r", "e", "d",
    " ", "b", "e", "f", "o", "r", "e">>
StatusDecided ==
    <<"d", "e", "c", "i", "d", "e", "d">>
StatusAccepted ==
    <<"A", "c", "c", "e", "p", "t", "e", "d">>
StatusDeferred ==
    <<"D", "e", "f", "e", "r", "r", "e", "d">>
StatusPostponed ==
    <<"p", "o", "s", "t", "p", "o", "n", "e", "d", " ", "w", "h", "i", "l", "e", " ", "o", "p",
    "e", "n">>
StatusOpenAgain ==
    <<"R", "e", "o", "p", "e", "n", "e", "d">>
StatusInProgress ==
    <<"I", "n", " ", "P", "r", "o", "g", "r", "e", "s", "s">>
StatusRejected ==
    <<"R", "e", "j", "e", "c", "t", "e", "d">>
DescScenario ==
    <<"*", "*", "b", "o", "l", "d", "*", "*", " ", "a", "n", "d", " ", "*", "e", "m", "*", " ",
    "a", "n", "d", " ", Backtick, "c", "o", "d", "e", Backtick>>
DescMeta ==
    <<"1", " ", "<", " ", "2", " ", "&", " ", "\"", "q", "\"", " ", ">", " ", "'", "r", "'">>
DescEntity ==
    <<"&", "l", "t", ";", " ", "*", "a", "<", "b", "*", " ", Backtick, "c", "&", "d", Backtick>>
DescLines ==
    <<"*", "*", "a", "*", "*", " ", "*", "*", "b", "*", "*", "\n", "*", "c", "*", " ",
    Backtick, "d", Backtick, " ", Backtick, "e", Backtick>>

\* a section of a markdown file; an empty owner, status or date leaves its
\* line out
SectionOf(title, owner, status, date, description) ==
    H2 \o title
        \o (IF owner = <<>> THEN <<>> ELSE NL \o LBR \o owner \o RBR)
        \o (IF status = <<>> THEN <<>> ELSE NL \o STATUS_KEY \o <<" ">> \o status)
        \o (IF date = <<>> THEN <<>> ELSE NL \o DATE_KEY \o <<" ">> \o date)
        \o (IF description = <<>> THEN <<>> ELSE NL \o description)

DatedSections ==
    { SectionOf(<<"N">>, <<>>, <<>>, DateNew, <<>>),
      SectionOf(<<"M">>, <<>>, <<>>, DateMid, <<>>),
      SectionOf(<<"O">>, <<>>, <<>>, DateOld, <<>>),
      SectionOf(<<"W">>, <<>>, <<>>, DateWord, <<>>),
      SectionOf(<<"X">>, <<>>, <<>>, DateNoDay, <<>>) }
TextSections ==
    { SectionOf(t, o, <<>>, <<>>, d) :
          t \in {TitlePlain, TitleMeta}, o \in {<<>>, OwnerPlain, OwnerMeta},
          d \in {DescScenario, DescMeta, DescEntity, DescLines} }
StatusSections ==
    { SectionOf(TitlePlain, <<>>, s, <<>>, <<>>) :
          s \in { StatusApprovedLater, StatusDecided, StatusAccepted, StatusDeferred,
                  StatusPostponed, StatusOpenAgain, StatusInProgress, StatusRejected } }
\* the most sections of a file of dated sections
MaxRendered == 3
RenderFiles ==
    {join(NL, sections) : sections \in SeqsUpTo(DatedSections, MaxRendered)}
        \cup TextSections \cup StatusSections

InitRender ==
    /\ variant \in Variants
    /\ page = [title |-> PageTitle, body |-> <<>>, version |-> 1]
    /\ now = Clock[1]
    /\ runs = 1
    /\ faults = {}
    /\ pc = "reconciled"
    /\ markdown_content \in RenderFiles
    /\ confluence_decisions = <<>>
    /\ LET r == reconciled(parse_markdown_decisions(markdown_content, now.date, variant),
                            confluence_decisions, now.date, TRUE)
       IN  /\ markdown_decisions = r.markdown_decisions
           /\ final_decisions = r.final_decisions
           /\ sync_result = r.sync_result
    /\ content = <<>>
    /\ updates = 0
    /\ log = <<>>
    /\ cli = Imported
    /\ counter = CounterIdle
    /\ manager = ManagerIdle

NextRender == CreateContent

SpecRender == InitRender /\ [][NextRender]_vars

(***************************************************************************)
(* status_counter.py: main() run after run on one page                     *)
(***************************************************************************)
\* the pieces a page is put together from: a paragraph, a status macro as
\* build_status_macro writes it, a status macro without colour, the markers
PieceText ==
    <<"<", "p", ">", "x", "<", "/", "p", ">">>
Done ==
    <<"D", "o", "n", "e">>
PieceNoColour ==
    <<"<", "a", "c", ":", "s", "t", "r", "u", "c", "t", "u", "r", "e", "d", "-", "m", "a", "c",
    "r", "o", " ", "a", "c", ":", "n", "a", "m", "e", "=", "\"", "s", "t", "a", "t", "u", "s",
    "\"", ">", "<", "a", "c", ":", "p", "a", "r", "a", "m", "e", "t", "e", "r", " ", "a", "c",
    ":", "n", "a", "m", "e", "=", "\"", "t", "i", "t", "l", "e", "\"", ">", "T", "o", "d", "o",
    "<", "/", "a", "c", ":", "p", "a", "r", "a", "m", "e", "t", "e", "r", ">", "<", "/", "a",
    "c", ":", "s", "t", "r", "u", "c", "t", "u", "r", "e", "d", "-", "m", "a", "c", "r", "o",
    ">">>
StatusGreen == build_status_macro(Green, Done)
\* the pages: without markers, with both markers around nothing, around
\* text and around a macro, with one marker, and with the end marker first
CounterPages ==
    { <<>>,
      <<PieceText>>,
      <<StatusGreen>>,
      <<PieceNoColour>>,
      <<StatusGreen, PieceNoColour, StatusGreen>>,
      <<begin_marker, end_marker, StatusGreen>>,
      <<StatusGreen, begin_marker, end_marker, PieceText>>,
      <<StatusGreen, begin_marker, PieceText, end_marker, PieceNoColour>>,
      <<PieceText, begin_marker, StatusGreen, end_marker>>,
      <<begin_marker, StatusGreen>>,
      <<StatusGreen, end_marker>>,
      <<end_marker, StatusGreen, begin_marker>> }

InitCounter ==
    /\ variant = "logger"
    /\ \E pieces \in CounterPages :
           page = [title |-> PageTitle, body |-> join(<<>>, pieces), version |-> 1]
    /\ now = Clock[1]
    /\ runs = 0
    /\ faults = {}
    /\ pc = "status_counter"
    /\ markdown_content = <<>>
    /\ markdown_decisions = <<>>
    /\ confluence_decisions = <<>>
    /\ final_decisions = <<>>
    /\ sync_result = EmptySyncResult
    /\ content = <<>>
    /\ updates = 0
    /\ log = <<>>
    /\ cli = Imported
    /\ counter = [CounterIdle EXCEPT !.stage = "start"]
    /\ manager = ManagerIdle

decision_sync ==
    << variant, now, runs, faults, pc, markdown_content, markdown_decisions,
       confluence_decisions, final_decisions, sync_result, content, updates, log, cli >>

\* main() up to the call of update_page: fetch_page, extract_color_title_pairs,
\* the return when no macro is found, Counter and generate_table_html; an
\* exception of the fetch is printed
CountStatuses ==
    /\ counter.stage \in {"start", "done", "nothing", "failed"}
    /\ counter.runs < MaxRuns
    /\ \E fetched \in BOOLEAN :
           LET page_content == page.body
               color_title_pairs == extract_color_title_pairs(page_content)
               status_counts == counter_of(color_title_pairs)
               started == [counter EXCEPT !.runs = @ + 1, !.page_content = <<>>,
                                          !.color_title_pairs = <<>>,
                                          !.new_table_html = <<>>, !.page_data = <<>>,
                                          !.updated_page = <<>>]
           IN  counter' =
                   IF ~fetched THEN [started EXCEPT !.stage = "failed"]
                   ELSE IF color_title_pairs = <<>>
                   THEN [started EXCEPT !.stage = "nothing", !.page_content = page_content]
                   ELSE [started EXCEPT !.stage = "counted",
                                        !.page_content = page_content,
                                        !.color_title_pairs = color_title_pairs,
                                        !.new_table_html = generate_table_html(status_counts)]
    /\ UNCHANGED <<decision_sync, page, manager>>

\* update_page: the page is fetched again, the table put between the markers
\* or appended with them, and the page written with the next version number
UpdateTable ==
    /\ counter.stage = "counted"
    /\ \E fetched \in BOOLEAN, put \in BOOLEAN :
           LET page_data == page
               updated_page ==
                   [ title |-> page_data.title,
                     version |-> page_data.version + 1,
                     body |-> updated_content(page_data.body, counter.new_table_html) ]
           IN  IF ~fetched
               THEN /\ counter' = [counter EXCEPT !.stage = "failed"]
                    /\ UNCHANGED page
               ELSE IF ~put
               THEN /\ counter' = [counter EXCEPT !.stage = "failed", !.page_data = page_data,
                                                  !.updated_page = updated_page]
                    /\ UNCHANGED page
               ELSE /\ counter' = [counter EXCEPT !.stage = "done", !.page_data = page_data,
                                                  !.updated_page = updated_page,
                                                  !.tables = Append(@, counter.new_table_html)]
                    /\ page' = updated_page
    /\ UNCHANGED <<decision_sync, manager>>

NextCounter ==
    \/ CountStatuses
    \/ UpdateTable

SpecCounter == InitCounter /\ [][NextCounter]_vars

(***************************************************************************)
(* la-bel-confluence.py: cascade_labels on a page tree                     *)
(***************************************************************************)
\* the page trees, as the children of each page id in the order the server
\* lists them: one page, a chain, two children, and children with a grandchild
PageTrees ==
    { <<<<>>>>,
      <<<<2>>, <<3>>, <<>>>>,
      <<<<2, 3>>, <<>>, <<>>>>,
      <<<<2, 3>>, <<4>>, <<>>, <<>>>> }
\* the title of a page
TitleOfPage(page_id) == <<"P">> \o str_int(page_id)
\* what the user types for the labels
LabelInputs ==
    { <<>>, <<"a">>, <<"a", " ", "b">>, <<" ", "b", "\t", " ", "b", " ">> }
\* the most remote calls of one cascade that do not succeed
MaxFailures == 1

InitManager ==
    /\ variant = "logger"
    /\ page = [title |-> PageTitle, body |-> <<>>, version |-> 1]
    /\ now = Clock[1]
    /\ runs = 0
    /\ faults = {}
    /\ pc = "label_manager"
    /\ markdown_content = <<>>
    /\ markdown_decisions = <<>>
    /\ confluence_decisions = <<>>
    /\ final_decisions = <<>>
    /\ sync_result = EmptySyncResult
    /\ content = <<>>
    /\ updates = 0
    /\ log = <<>>
    /\ cli = Imported
    /\ counter = CounterIdle
    /\ \E tree \in PageTrees, text \in LabelInputs :
           manager = [ManagerIdle EXCEPT !.stage = "called", !.children = tree,
                                         !.top_level_page = 1, !.text = text]

\* the outcomes of a remote call: any one when a failure is still allowed
Outcomes(all) == IF manager.failures < MaxFailures THEN all ELSE {"ok"}

\* cascade_labels up to its loop: labels = labels.split()
SplitLabels ==
    /\ manager.stage = "called"
    /\ manager' = [manager EXCEPT !.stage = "top", !.labels = split_whitespace(manager.text),
                                  !.label = 1]
    /\ UNCHANGED <<decision_sync, page, counter>>

\* the page and label of the add_label_to_page call that is next, <<>> when
\* the next step is not such a call
next_addition ==
    IF manager.stage = "top" /\ manager.label <= Len(manager.labels)
    THEN <<[page_id |-> manager.top_level_page, label |-> manager.labels[manager.label]]>>
    ELSE IF manager.stage = "children" /\ manager.stack # <<>>
    THEN LET frame == manager.stack[Len(manager.stack)]
         IN  IF frame.label <= Len(manager.labels)
             THEN <<[page_id |-> frame.children[frame.child],
                     label |-> manager.labels[frame.label]]>>
             ELSE <<>>
    ELSE <<>>

\* add_label_to_page: set_page_label, then for a truthy response
\* get_page_by_id and the title appended to labeled_pages; an exception of
\* either call is printed
AddLabelToPage ==
    /\ next_addition # <<>>
    /\ \E outcome \in Outcomes({"ok", "falsy", "raised", "title raised"}) :
           LET call == next_addition[1]
               stepped ==
                   IF manager.stage = "top" THEN [manager EXCEPT !.label = @ + 1]
                   ELSE [manager EXCEPT !.stack[Len(manager.stack)].label = @ + 1]
           IN  manager' =
                   [stepped EXCEPT
                      !.attempts = Append(@, call),
                      !.added = IF outcome \in {"ok", "title raised"}
                                THEN Append(@, call) ELSE @,
                      !.labeled_pages = IF outcome = "ok"
                                        THEN Append(@, TitleOfPage(call.page_id)) ELSE @,
                      !.failures = IF outcome = "ok" THEN @ ELSE @ + 1]
    /\ UNCHANGED <<decision_sync, page, counter>>

\* the page whose children the next call of add_labels_to_children fetches,
\* 0 when the next step is not such a call
next_parent ==
    IF manager.stage = "top" /\ manager.label > Len(manager.labels)
    THEN manager.top_level_page
    ELSE IF manager.stage = "children" /\ manager.stack # <<>>
            /\ manager.stack[Len(manager.stack)].label > Len(manager.labels)
    THEN LET frame == manager.stack[Len(manager.stack)] IN frame.children[frame.child]
    ELSE 0

\* add_labels_to_children up to its loop: get_page_child_by_type; the call
\* returns when there are no children and when the fetch raises. The caller's
\* loop goes on with its next child afterwards.
AddLabelsToChildren ==
    /\ next_parent # 0
    /\ \E outcome \in Outcomes({"ok", "raised"}) :
           LET children == IF outcome = "ok" THEN manager.children[next_parent] ELSE <<>>
               caller == IF manager.stage = "top" THEN <<>>
                         ELSE [manager.stack EXCEPT ![Len(manager.stack)].child = @ + 1,
                                                    ![Len(manager.stack)].label = 1]
               stack == returned(Append(caller, [page_id |-> next_parent,
                                                 children |-> children,
                                                 child |-> 1, label |-> 1]))
           IN  manager' =
                   [manager EXCEPT
                      !.stack = stack,
                      !.stage = IF stack = <<>> THEN "done" ELSE "children",
                      !.failures = IF outcome = "ok" THEN @ ELSE @ + 1]
    /\ UNCHANGED <<decision_sync, page, counter>>

NextManager ==
    \/ SplitLabels
    \/ AddLabelToPage
    \/ AddLabelsToChildren

SpecManager == InitManager /\ [][NextManager]_vars

(***************************************************************************)
(* Properties                                                              *)
(***************************************************************************)
Content(d) == <<d.title, d.owner, d.description>>
Count(seq, x) == Cardinality({k \in 1..Len(seq) : seq[k] = x})
InSeq(seq, x) == \E k \in 1..Len(seq) : seq[k] = x
HasRemote(t) == \E j \in 1..Len(confluence_decisions) : confluence_decisions[j].title = t
\* the remote decision the title index holds for t
LastRemote(t) ==
    confluence_decisions[
        Max({j \in 1..Len(confluence_decisions) : confluence_decisions[j].title = t})]
\* markdown decision k has the content of the remote decision indexed under its title
SameAsRemote(k) ==
    /\ HasRemote(markdown_decisions[k].title)
    /\ Content(markdown_decisions[k]) = Content(LastRemote(markdown_decisions[k].title))

\* C1 as stated: a markdown decision with the title, owner and description
\* of some remote decision is classified 'unchanged' and nothing else, and
\* the merged output holds that remote record at its position.
C1_UnchangedForAnyIdenticalRemote ==
    pc = "reconciled" =>
        \A i \in 1..Len(markdown_decisions) : \A j \in 1..Len(confluence_decisions) :
            Content(markdown_decisions[i]) = Content(confluence_decisions[j]) =>
                /\ final_decisions[i] = confluence_decisions[j]
                /\ InSeq(sync_result.unchanged, markdown_decisions[i].title)
                /\ ~InSeq(sync_result.added, markdown_decisions[i].title)
                /\ ~InSeq(sync_result.updated, markdown_decisions[i].title)

\* C1 (amended): a markdown decision with the title, owner and description
\* of the LAST remote decision of its title gets one 'unchanged' entry and
\* no 'added' or 'updated' entry of its own, and the merged output holds that
\* remote record at its position.
C1_UnchangedForLastRemote ==
    pc = "reconciled" =>
        \A i \in 1..Len(markdown_decisions) :
            LET t == markdown_decisions[i].title
                Same == {k \in 1..Len(markdown_decisions) :
                            markdown_decisions[k].title = t /\ SameAsRemote(k)}
                Others == {k \in 1..Len(markdown_decisions) :
                              markdown_decisions[k].title = t /\ ~SameAsRemote(k)}
            IN  SameAsRemote(i) =>
                    /\ final_decisions[i] = LastRemote(t)
                    /\ Count(sync_result.unchanged, t) >= Cardinality(Same)
                    /\ Count(sync_result.added, t) + Count(sync_result.updated, t)
                           <= Cardinality(Others)

\* a markdown decision equal in content to the last remote decision of its
\* title, while an earlier remote decision of that title differs
C1_Witness ==
    /\ pc = "reconciled"
    /\ \E i \in 1..Len(markdown_decisions) : \E j \in 1..Len(confluence_decisions) :
           /\ SameAsRemote(i)
           /\ confluence_decisions[j].title = markdown_decisions[i].title
           /\ Content(confluence_decisions[j]) # Content(markdown_decisions[i])

\* C2: a markdown decision that shares its title with a remote decision and
\* differs from it in owner or description is classified 'updated', the
\* merged output holds the markdown version, and its date_updated is the
\* date of the run.
C2_UpdatedForDifferingContent ==
    pc = "reconciled" =>
        \A i \in 1..Len(markdown_decisions) :
            LET md == markdown_decisions[i]
            IN  (/\ HasRemote(md.title)
                 /\ \/ md.owner # LastRemote(md.title).owner
                    \/ md.description # LastRemote(md.title).description)
                =>  /\ InSeq(sync_result.updated, md.title)
                    /\ final_decisions[i].source = "markdown"
                    /\ Content(final_decisions[i]) = Content(md)
                    /\ final_decisions[i].date_updated = now.date

\* C3: every remote decision whose title no markdown decision has is in the
\* merged output unmodified, after the entries of the markdown decisions and
\* in remote order, and its title is in no bucket.
C3_RemoteOnlyPreserved ==
    pc = "reconciled" =>
        LET n == Len(markdown_decisions)
            only == SelectSeq(confluence_decisions,
                              LAMBDA c : c.title \notin Titles(markdown_decisions))
        IN  /\ Len(final_decisions) = n + Len(only)
            /\ SubSeq(final_decisions, n + 1, Len(final_decisions)) = only
            /\ \A k \in 1..Len(only) :
                   /\ ~InSeq(sync_result.added, only[k].title)
                   /\ ~InSeq(sync_result.updated, only[k].title)
                   /\ ~InSeq(sync_result.unchanged, only[k].title)

\* two remote-only decisions behind a markdown decision
C3_Witness ==
    /\ pc = "reconciled"
    /\ Len(markdown_decisions) >= 1
    /\ Len(final_decisions) = Len(markdown_decisions) + 2
    /\ final_decisions[Len(final_decisions)].source = "confluence"
    /\ final_decisions[Len(final_decisions)].title \notin Titles(markdown_decisions)
    /\ final_decisions[Len(final_decisions) - 1].title \notin Titles(markdown_decisions)
    /\ final_decisions[Len(final_decisions) - 1] # final_decisions[Len(final_decisions)]

\* C4: no two entries of the merged output have the same title.
C4_MergedTitlesUnique ==
    pc = "reconciled" =>
        \A k1, k2 \in 1..Len(final_decisions) :
            k1 # k2 => final_decisions[k1].title # final_decisions[k2].title

\* the Decision records of the run, from either source
Records ==
    {markdown_decisions[k] : k \in 1..Len(markdown_decisions)}
        \cup {confluence_decisions[k] : k \in 1..Len(confluence_decisions)}
        \cup {final_decisions[k] : k \in 1..Len(final_decisions)}

\* C6: two Decision records with the same title, owner and description have
\* the same hash_id, whatever their status, dates and source.
C6_FingerprintStability ==
    \A d, e \in Records : Content(d) = Content(e) => d.hash_id = e.hash_id

\* a parsed and an extracted record of the same content that differ in
\* status and source
C6_Witness ==
    \E d, e \in Records :
        /\ pc = "reconciled"
        /\ Content(d) = Content(e)
        /\ d.source = "markdown" /\ e.source = "confluence"
        /\ d.status # e.status
        /\ d.original_text # e.original_text

\* the text of a file with the value of its first line `key value` removed
WithoutValue(file, key) ==
    LET i == Find(file, key, 1)
    IN  IF i = 0 THEN file
        ELSE SubSeq(file, 1, i + Len(key) - 1) \o From(file, RunEnd(file, i, {"\n"}))

HashIds(decisions) == [k \in 1..Len(decisions) |-> decisions[k].hash_id]

\* C7: two files that differ only in the value of the **Status**: line, or
\* only in the value of the **Date**: line, parse to the same fingerprints,
\* and reconciling one against the decisions of the other updates nothing.
C7_StatusOrDateEditKeepsFingerprint ==
    pc = "parsed" =>
        \A other \in ParseFiles :
            (\/ WithoutValue(other, STATUS_KEY) = WithoutValue(markdown_content, STATUS_KEY)
             \/ WithoutValue(other, DATE_KEY) = WithoutValue(markdown_content, DATE_KEY))
            =>  LET remote == parse_markdown_decisions(other, now.date, variant)
                IN  /\ HashIds(remote) = HashIds(markdown_decisions)
                    /\ sync_decisions(markdown_decisions, remote, now.date).sync_result.updated
                           = <<>>

\* C10: the scenario file parses to one decision with title "Ship v2", owner
\* "Alice", status "DECIDED" and description "Ship it."; no title keeps owner
\* markup and no description keeps a status or date line.
C10_ShipScenario ==
    pc = "parsed" =>
        /\ markdown_content = FileShip =>
               /\ Len(markdown_decisions) = 1
               /\ markdown_decisions[1].title = ShipV2
               /\ markdown_decisions[1].owner = Alice
               /\ markdown_decisions[1].status = DECIDED
               /\ markdown_decisions[1].description = ShipIt
        /\ \A k \in 1..Len(markdown_decisions) :
               /\ ~Contains(markdown_decisions[k].title, LBR)
               /\ ~Contains(markdown_decisions[k].description, STATUS_KEY)
               /\ ~Contains(markdown_decisions[k].description, DATE_KEY)

\* the decisions a page body holds, and their titles
DecisionsOn(body) ==
    LET found == decisions_of_content(body, now.date)
    IN  {found[k] : k \in 1..Len(found)}
TitlesOn(body) == {d.title : d \in DecisionsOn(body)}
\* title t is written on a body as a decision: in a decision macro, or as
\* the heading of a decision block
PresentOn(body, t) ==
    \/ t \in TitlesOn(body)
    \/ Contains(body, H2_OPEN \o escape_html(t) \o SubSeq(H2_CLOSE, 1, 5))

\* C5: every decision title on the page before a run is a decision title of
\* the content the run writes.
C5_NoRunDeletesRemoteDecision ==
    [][(pc = "rendered" /\ pc' = "done")
           => \A t \in TitlesOn(page.body) : PresentOn(page'.body, t)]_vars

MetaCharacters == {"&", "<", ">", "\"", "'"}
NoMeta(d) ==
    \A text \in {d.title, d.owner, d.description} :
        \A k \in 1..Len(text) : text[k] \notin MetaCharacters

\* C8: every merged decision without HTML metacharacters is found again,
\* with its title, owner, description and fingerprint, when the rendered
\* content is extracted.
C8_RoundTrip ==
    pc = "rendered" =>
        \A k \in 1..Len(final_decisions) :
            NoMeta(final_decisions[k]) =>
                \E e \in DecisionsOn(content) :
                    /\ Content(e) = Content(final_decisions[k])
                    /\ e.hash_id = final_decisions[k].hash_id

\* C9: a successful run that follows a successful run with the same markdown
\* file adds and updates nothing, and merges the same titles, owners and
\* descriptions.
C9_SecondRunUnchanged ==
    (/\ pc = "done"
     /\ Len(log) >= 2
     /\ log[Len(log) - 1].ok
     /\ log[Len(log) - 1].markdown_content = markdown_content)
    =>  /\ sync_result.added = <<>>
        /\ sync_result.updated = <<>>
        /\ {log[Len(log)].merged[k] : k \in 1..Len(log[Len(log)].merged)}
               = {log[Len(log) - 1].merged[k] : k \in 1..Len(log[Len(log) - 1].merged)}

\* the titles of a sequence of decisions, in order
TitleSeq(decisions) == [k \in 1..Len(decisions) |-> decisions[k].title]

StepOrder ==
    { <<"idle", "read">>, <<"done", "read">>, <<"failed", "read">>, <<"read", "parsed">>,
      <<"parsed", "extracted">>, <<"extracted", "reconciled">>,
      <<"reconciled", "rendered">>, <<"rendered", "done">>, <<"rendered", "failed">> }

\* C12: a run takes its steps in the order read, parse, extract, reconcile,
\* render, write; update_page is called only in the write step and once; a
\* run that completes the write step has called it exactly once with the
\* whole rendered content, whether or not the page already held that content.
C12_StepOrderSingleWrite ==
    [][ /\ pc' # pc => <<pc, pc'>> \in StepOrder
        /\ updates' # updates
               => \/ pc = "rendered" /\ updates = 0 /\ updates' = 1
                  \/ pc' = "read" /\ updates' = 0
        /\ page' # page => pc = "rendered" /\ pc' = "done"
        /\ (pc = "rendered" /\ pc' = "done")
               => /\ updates' = 1
                  /\ page'.body = content
                  /\ page'.version = page.version + 1 ]_vars

\* a run has written a page that already held the rendered content
C12_Witness ==
    /\ pc = "done"
    /\ updates = 1
    /\ log[Len(log)].body_before = page.body
    /\ page.body = content
    /\ page.version = 3

\* setting var has a value, from its option or from the environment
IsSet(var) ==
    \/ var \in DOMAIN cli.env /\ cli.env[var] # Unset
    \/ var \in DOMAIN FlagOf /\ cli.flags[FlagOf[var]] # Unset
\* no step of a run was taken and nothing was written
NothingDone ==
    /\ pc \in {"main", "interrupted"}
    /\ markdown_content = <<>>
    /\ updates = 0
    /\ page.version = 1

\* C13: with --dry-run the command never reads the file, never calls
\* update_page, leaves the page as it is, and exits with a non-zero code.
C13_DryRunRefused ==
    (cli.stage # "imported" /\ cli.dry_run) =>
        /\ NothingDone
        /\ cli.stage = "exited" => cli.exit_code > 0

\* a --dry-run command line with every setting present has connected and
\* stopped at the dry-run branch
C13_Witness ==
    /\ cli.dry_run
    /\ cli.stage = "exited"
    /\ cli.message = "Dry run mode not implemented yet"
    /\ cli.remote_calls = 1
    /\ cli.exit_code = 1

\* C14: when a required setting of the logger command has no value from
\* its option or the environment, the command reports all such settings at
\* once, exits with a non-zero code, connects to nothing and reads no file.
C14_MissingSettingsReportedTogether ==
    (/\ cli.stage # "imported"
     /\ variant = "logger"
     /\ \E k \in 1..Len(EnvNames) : ~IsSet(EnvNames[k]))
    =>  /\ NothingDone
        /\ cli.remote_calls = 0
        /\ cli.stage \in {"start", "exited"}
        /\ (cli.stage = "exited" /\ pc # "interrupted")
               => /\ cli.exit_code > 0
                  /\ cli.missing_vars = SelectSeq(EnvNames, LAMBDA var : ~IsSet(var))

\* two settings were missing, one of them given neither as option nor in
\* the environment, and both were reported
C14_Witness ==
    /\ variant = "logger"
    /\ cli.stage = "exited"
    /\ Len(cli.missing_vars) >= 2
    /\ \E k \in 1..Len(cli.missing_vars) : cli.missing_vars[k] \in DOMAIN FlagOf
    /\ \E f \in FlagNames : cli.flags[f] # Unset
    /\ cli.exit_code = 1

Rendered(decisions, result) ==
    LET actual_title(fallback) == IF "title" \in faults THEN fallback ELSE page.title
    IN  IF variant = "logger"
        THEN create_decisions_page_content(decisions, actual_title(DecisionLog), result, now)
        ELSE create_decisions_page_content_enhanced(decisions, actual_title(PAGE_ID),
                                                    result, now)

C17_AddedForNewTitle ==
    pc = "reconciled" =>
        \A i \in 1..Len(markdown_decisions) :
            LET t == markdown_decisions[i].title
            IN  ~HasRemote(t) =>
                    /\ Count(sync_result.added, t)
                           = Cardinality({k \in 1..Len(markdown_decisions) :
                                             markdown_decisions[k].title = t})
                    /\ ~InSeq(sync_result.updated, t)
                    /\ ~InSeq(sync_result.unchanged, t)
                    /\ final_decisions[i] = markdown_decisions[i]
                    /\ final_decisions[i].source = "markdown"
                    /\ final_decisions[i].date_updated = <<>>

\* a new markdown decision was added next to one that was updated
C17_Witness ==
    /\ pc = "reconciled"
    /\ Len(sync_result.added) = 1
    /\ Len(sync_result.updated) = 1
    /\ \E i \in 1..Len(markdown_decisions) :
           /\ ~HasRemote(markdown_decisions[i].title)
           /\ final_decisions[i].date_updated = <<>>

\* the value on the first **Status**: line of a section
StatusLineValue(section) ==
    LET i == Find(section, STATUS_KEY, 1) + Len(STATUS_KEY)
    IN  strip(SubSeq(section, i, RunEnd(section, i, {"\n"}) - 1))
\* some word of the set is in the section as a whole word, in any case
Mentions(section, words) == \E w \in words : HasWord(section, w)

\* the status the keywords of a section give, in their order
KeywordStatus(section) ==
    IF Mentions(section, DecidedWords) THEN DECIDED
    ELSE IF Mentions(section, OpenWords) THEN OPEN
    ELSE IF Mentions(section, DeferredWords) THEN DEFERRED
    ELSE OPEN

\* C18: in the logger a section with a **Status**: line has the value of
\* that line as its status (when the line has no value: nothing, or what
\* the keywords give); a section without one is DECIDED when it mentions
\* Approved, Accepted or Decided, else OPEN when it mentions In Progress or
\* Ongoing, else DEFERRED when it mentions Deferred, Postponed or Planning,
\* else OPEN.
C18_StatusLineThenKeywordOrder ==
    (pc = "parsed" /\ variant = "logger") =>
        \A k \in 1..Len(markdown_decisions) :
            LET section == markdown_decisions[k].original_text
                status == markdown_decisions[k].status
            IN  IF ~Contains(section, STATUS_KEY) THEN status = KeywordStatus(section)
                ELSE IF StatusLineValue(section) # <<>> THEN status = StatusLineValue(section)
                ELSE status \in {<<>>, KeywordStatus(section)}

\* the lines of a text that are level-2 headings with a title
HeadingLines(text) ==
    SelectSeq(split(text, NL),
              LAMBDA line : startswith(line, H2) /\ strip(From(line, Len(H2) + 1)) # <<>>)

\* C19: parse_markdown_decisions returns one decision for each level-2
\* heading line with a non-empty title, and nothing else; a heading without
\* body gives an empty description, and a section without owner, without
\* status and without date gets "Unassigned", OPEN and the date of the run.
C19_OneDecisionPerHeading ==
    pc = "parsed" =>
        /\ Len(markdown_decisions) = Len(HeadingLines(markdown_content))
        /\ \A k \in 1..Len(markdown_decisions) :
               LET d == markdown_decisions[k]
                   section == d.original_text
               IN  /\ d.title # <<>>
                   /\ ~Contains(section, NL) => d.description = <<>>
                   /\ ~Contains(section, LBR) => d.owner = Unassigned
                   /\ (~Contains(section, STATUS_KEY) /\ KeywordStatus(section) = OPEN)
                          => d.status = OPEN
                   /\ ~Contains(section, DATE_KEY) => d.date_created = now.date

\* the index of the last character of a [[Name]] token that starts at i, 0
\* when none does: "[[", one or more characters other than "]", then "]]"
TokenEnd(text, i) ==
    LET Closing == {j \in (i + 3)..(Len(text) - 1) :
                       /\ text[j] = "]" /\ text[j + 1] = "]"
                       /\ \A m \in (i + 2)..(j - 1) : text[m] # "]"}
    IN  IF i + 1 <= Len(text) /\ text[i] = "[" /\ text[i + 1] = "[" /\ Closing # {}
        THEN Min(Closing) + 1 ELSE 0
\* the text read from i on, left to right: the names of its tokens, and the
\* characters outside them
RECURSIVE Scan(_, _)
Scan(text, i) ==
    IF i > Len(text) THEN [tokens |-> <<>>, rest |-> <<>>]
    ELSE IF TokenEnd(text, i) # 0
         THEN LET after == Scan(text, TokenEnd(text, i) + 1)
              IN  [after EXCEPT !.tokens = <<SubSeq(text, i + 2, TokenEnd(text, i) - 2)>> \o @]
         ELSE LET after == Scan(text, i + 1)
              IN  [after EXCEPT !.rest = <<text[i]>> \o @]
\* the text of a section after its heading line
AfterHeading(section) ==
    IF Contains(section, NL) THEN From(section, Find(section, NL, 1) + 1) ELSE <<>>

\* C20: the owner of a section in the logger is the ", "-joined list of its
\* [[Name]] tokens in order, the heading's included, or "Unassigned"; the
\* description in both scripts is the text after the heading line without
\* its tokens, trimmed.
C20_OwnersJoinedDescriptionStripped ==
    pc = "parsed" =>
        \A k \in 1..Len(markdown_decisions) :
            LET d == markdown_decisions[k]
                names == Scan(d.original_text, 1).tokens
            IN  /\ variant = "logger"
                       => d.owner = IF names = <<>> THEN Unassigned
                                    ELSE join(COMMA_SP, names)
                /\ d.description = strip(Scan(AfterHeading(d.original_text), 1).rest)

\* a logger decision with owners from its heading and from its body, whose
\* description lost a token
C20_Witness ==
    /\ pc = "parsed"
    /\ variant = "logger"
    /\ \E k \in 1..Len(markdown_decisions) :
           LET d == markdown_decisions[k]
           IN  /\ Len(Scan(d.original_text, 1).tokens) = 3
               /\ Len(Scan(AfterHeading(d.original_text), 1).tokens) = 1
               /\ Contains(d.owner, COMMA_SP)
               /\ d.description # <<>>
               /\ d.description # strip(AfterHeading(d.original_text))

\* C21: when the remote write of a run fails, the failure is in the error
\* list of the sync report and the command's final status line is the
\* "completed with N errors" line; the "completed successfully" line is
\* printed exactly when no error was collected.
C21_FinalStatusLine ==
    (variant = "logger" /\ cli.stage = "exited" /\ pc \in {"done", "failed"}) =>
        /\ pc = "failed"
               => /\ sync_result.errors # <<>>
                  /\ cli.message = "Completed with errors"
        /\ cli.message = "Synchronization completed successfully"
               <=> sync_result.errors = <<>>

\* the dates after "Created:" in a page content, in the order of the page
RECURSIVE CreatedDates(_, _)
CreatedDates(text, from) ==
    LET at == Find(text, CREATED_META, from)
        start == at + Len(CREATED_META)
    IN  IF at = 0 THEN <<>>
        ELSE <<SubSeq(text, start, RunEnd(text, start, {"<"}) - 1)>>
                 \o CreatedDates(text, start)
\* a text is a calendar date written YYYY-MM-DD
IsDate(t) ==
    /\ Len(t) = 10
    /\ \A k \in {1, 2, 3, 4, 6, 7, 9, 10} : IsDigit(t[k])
    /\ t[5] = "-" /\ t[8] = "-"
    /\ int_of(SubSeq(t, 6, 7)) \in 1..12
    /\ int_of(SubSeq(t, 9, 10)) \in 1..DaysInMonth(int_of(SubSeq(t, 1, 4)), int_of(SubSeq(t, 6, 7)))
\* date a is not before date b
NotBefore(a, b) ==
    LET n(t) == int_of(SubSeq(t, 1, 4)) * 10000 + int_of(SubSeq(t, 6, 7)) * 100
                    + int_of(SubSeq(t, 9, 10))
    IN  n(a) >= n(b)

\* C22: the page content holds the decisions from the newest date_created to
\* the oldest, and every decision whose date_created is not a date after
\* every decision whose date_created is one.
C22_NewestFirstUnparseableLast ==
    pc = "rendered" =>
        LET shown == CreatedDates(content, 1)
        IN  /\ Len(shown) = Len(final_decisions)
            /\ \A i \in 1..Len(shown) : \A j \in (i + 1)..Len(shown) :
                   /\ (IsDate(shown[i]) /\ IsDate(shown[j])) => NotBefore(shown[i], shown[j])
                   /\ IsDate(shown[j]) => IsDate(shown[i])

\* a text with each of & < > " ' written as its entity, character by character
RECURSIVE Escaped(_)
Escaped(text) ==
    IF text = <<>> THEN <<>>
    ELSE (CASE Head(text) = "&" -> AMP
            [] Head(text) = "<" -> LT
            [] Head(text) = ">" -> GT
            [] Head(text) = "\"" -> QUOT
            [] Head(text) = "'" -> APOS
            [] OTHER -> <<Head(text)>>) \o Escaped(Tail(text))
\* a text without the markers of inline markdown
Unmarked(text) == ~Contains(text, <<"*">>) /\ ~Contains(text, <<Backtick>>)

\* C23: the rendered page holds the title, the owner and the description of
\* every decision escaped, each of & < > " ' as its entity and no entity
\* escaped twice, and does not hold a field with such a character as it is.
C23_FieldsEscaped ==
    pc = "rendered" =>
        \A k \in 1..Len(final_decisions) :
            LET d == final_decisions[k]
            IN  /\ Contains(content, Escaped(d.title))
                /\ Contains(content, Escaped(d.owner))
                /\ Unmarked(d.description)
                       => Contains(content, replace(Escaped(d.description), "\n", BR))
                /\ \A field \in {d.title, d.owner} :
                       Escaped(field) # field => ~Contains(content, field)

\* the positions of a text where p starts, from left to right without overlap
RECURSIVE Occurrences(_, _, _)
Occurrences(text, p, from) ==
    LET at == Find(text, p, from)
    IN  IF at = 0 THEN <<>> ELSE <<at>> \o Occurrences(text, p, at + Len(p))
\* the rendered descriptions of a page content: in each block, the text from
\* the paragraph's opening up to the metadata lines
DescriptionsShown(text) ==
    LET ends == Occurrences(text, CREATED_META, 1)
        shown(e) ==
            LET start == Max({i \in 1..e : MatchAt(text, i, P_OPEN)}) + Len(P_OPEN)
                whole == SubSeq(text, start, e - 1)
                meta == Find(whole, STATUS_META, 1)
            IN  IF meta = 0 THEN whole ELSE SubSeq(whole, 1, meta - 1)
    IN  {shown(ends[k]) : k \in 1..Len(ends)}
\* a text without the given pieces
RECURSIVE Without(_, _)
Without(text, pieces) ==
    IF pieces = <<>> THEN text
    ELSE Without(join(<<>>, split(text, Head(pieces))), Tail(pieces))
\* the description of the scenario as it is to be rendered
ScenarioShown ==
    <<"<", "s", "t", "r", "o", "n", "g", ">", "b", "o", "l", "d", "<", "/", "s", "t", "r", "o",
    "n", "g", ">", " ", "a", "n", "d", " ", "<", "e", "m", ">", "e", "m", "<", "/", "e", "m",
    ">", " ", "a", "n", "d", " ", "<", "c", "o", "d", "e", ">", "c", "o", "d", "e", "<", "/",
    "c", "o", "d", "e", ">">>

\* C24: a description with paired markers is rendered with one <strong>
\* element for each ** pair, one <em> element for each remaining * pair and
\* one <code> element for each backtick pair, the tags not escaped, no
\* asterisk and no backtick left, and the escaped text otherwise as it was;
\* "**bold** and *em* and `code`" gives the three elements in this order.
C24_InlineMarkdownConverted ==
    pc = "rendered" =>
        \A k \in 1..Len(final_decisions) :
            LET description == final_decisions[k].description
                stars == Len(Occurrences(description, <<"*">>, 1))
                pairs == Len(Occurrences(description, <<"*", "*">>, 1))
                ticks == Len(Occurrences(description, <<Backtick>>, 1))
            IN  \E shown \in DescriptionsShown(content) :
                    /\ Unmarked(shown)
                    /\ \A tag \in {STRONG_OPEN, EM_OPEN, CODE_OPEN} :
                           ~Contains(shown, Escaped(tag))
                    /\ Len(Occurrences(shown, STRONG_OPEN, 1)) * 2 = pairs
                    /\ Len(Occurrences(shown, EM_OPEN, 1)) * 2 = stars - 2 * pairs
                    /\ Len(Occurrences(shown, CODE_OPEN, 1)) * 2 = ticks
                    /\ Without(shown, << STRONG_OPEN, STRONG_CLOSE, EM_OPEN, EM_CLOSE,
                                         CODE_OPEN, CODE_CLOSE >>)
                           = replace(Escaped(Without(description, << <<"*">>, <<Backtick>> >>)),
                                     "\n", BR)
                    /\ description = DescScenario => shown = ScenarioShown

\* the description of the scenario has been rendered
C24_Witness ==
    /\ pc = "rendered"
    /\ variant = "logger"
    /\ Len(final_decisions) = 1
    /\ final_decisions[1].description = DescScenario
    /\ Contains(content, P_OPEN \o ScenarioShown \o CREATED_META)

\* the colour of a status: the first family of which the upper-cased status
\* contains a word
ColourOf(status) ==
    LET has(words) == \E w \in words : Contains(upper(status), w)
    IN  IF has({APPROVE, DECIDED, ACCEPTED}) THEN Green
        ELSE IF has({DEFER, POSTPONE}) THEN Yellow
        ELSE IF has({OPEN, IN_PROGRESS}) THEN Blue
        ELSE Grey

\* C25: the block of every decision the logger renders holds a status
\* element with the colour of the decision's status and the status as its
\* title.
C25_StatusIndicatorInBlock ==
    (pc = "rendered" /\ variant = "logger") =>
        \A k \in 1..Len(final_decisions) :
            LET status == final_decisions[k].status
            IN  Contains(content, STATUS_XML_1 \o ColourOf(status) \o STATUS_XML_2 \o status
                                      \o STATUS_XML_3)

\* C26: sync_decisions leaves every Decision of the markdown sequence with
\* the field values it had before the call, date_updated included.
C26_MarkdownDecisionsNotMutated ==
    [][(pc = "extracted" /\ pc' = "reconciled")
           => markdown_decisions' = markdown_decisions]_vars

\* C27: the page written by update_page is the fetched content with the text
\* between the begin marker and the end marker replaced by the new table
\* when both markers are there (everything up to the begin marker and from
\* the end marker on as it was), and the fetched content followed by the
\* markers around the new table when they are not; the title is the fetched
\* one and the version number the fetched one plus one.
C27_OnlyTableRegionReplaced ==
    counter.stage = "done" =>
        LET old == counter.page_data.body
            new == page.body
            table == NL \o counter.new_table_html \o NL
            start == Find(old, begin_marker, 1) + Len(begin_marker)
            end == Find(old, end_marker, 1)
            before == SubSeq(old, 1, start - 1)
            region == SubSeq(old, start, end - 1)
            after == From(old, end)
        IN  /\ page.title = counter.page_data.title
            /\ page.version = counter.page_data.version + 1
            /\ IF Contains(old, begin_marker) /\ Contains(old, end_marker)
               THEN /\ old = before \o region \o after
                    /\ new = before \o table \o after
               ELSE new = old \o NL \o begin_marker \o table \o end_marker \o NL

\* C28: a run of the status counter on a page that nobody has edited since
\* the previous run writes the table the previous run wrote.
C28_RerunWritesSameTable ==
    (counter.stage = "done" /\ Len(counter.tables) >= 2) =>
        counter.tables[Len(counter.tables)] = counter.tables[Len(counter.tables) - 1]

\* a page and the pages below it
RECURSIVE PagesFrom(_)
PagesFrom(page_id) ==
    LET children == manager.children[page_id]
    IN  {page_id} \cup UNION {PagesFrom(children[k]) : k \in 1..Len(children)}
\* the number of entries of a sequence that satisfy a test
Number(seq, Test(_)) == Cardinality({k \in 1..Len(seq) : Test(seq[k])})

\* C29: when cascade_labels has ended, every label of the input has been
\* tried once on the selected page and on every page below it, and
\* labeled_pages holds the title of a page once for every label that was
\* added to it.
C29_EveryPageEveryLabelOnce ==
    manager.stage = "done" =>
        /\ \A page_id \in PagesFrom(manager.top_level_page) :
               \A l \in 1..Len(manager.labels) :
                   Number(manager.attempts,
                          LAMBDA a : a = [page_id |-> page_id, label |-> manager.labels[l]])
                       = Number(manager.labels, LAMBDA x : x = manager.labels[l])
        /\ Len(manager.attempts)
               = Len(manager.labels) * Cardinality(PagesFrom(manager.top_level_page))
        /\ \A page_id \in PagesFrom(manager.top_level_page) :
               Number(manager.labeled_pages, LAMBDA title : title = TitleOfPage(page_id))
                   = Number(manager.added, LAMBDA a : a.page_id = page_id)

=============================================================================
